---------------------------- MODULE Spec2Model ----------------------------
(***************************************************************************)
(* A model of the GBM video frame decoder (source/gbm_decoder.c).          *)
(*                                                                         *)
(* Three specifications share the variables below:                        *)
(*   Spec      gbm_decode_frame run over one frame record, one step per    *)
(*             macroblock-loop iteration and per decode_block_WxH call     *)
(*             or return;                                                  *)
(*   SpecBits  next_bit / next_2bits called in any interleaving over a     *)
(*             flag stream;                                                *)
(*   SpecOps   one block operation (copy, delta-add, fill) of one block    *)
(*             size applied to a frame buffer.                             *)
(*                                                                         *)
(* 32-bit words are records [hi, lo] of two 16-bit halves, since the       *)
(* model checker's integers are 32-bit signed.                             *)
(***************************************************************************)
EXTENDS Integers, Sequences, FiniteSets, TLC

VARIABLES
    data,       \* const u8 *data: the GBM bytes handed to gbm_decode_frame
    hdr_version,\* the format-version byte of the GBM header the data came with
    wild,       \* the byte found at any address outside data / the frame
    version,    \* the version byte given to gbm_set_version (0: never set)
    offset,     \* u32 offset argument of gbm_decode_frame
    refArg,     \* the ref argument: "NULL", "dst" (same buffer) or "other"
    seed,       \* selects the initial contents of the two frame buffers
    dst,        \* the dst frame buffer: pixel index -> u16 for every pixel
                \* written so far (the others hold their initial contents)
    ctx,        \* DecodeContext
    frame,      \* locals of gbm_decode_frame: frame_len, bit_enc, ...
    stack,      \* the chain of active decode_block_WxH calls, innermost last
    x_block,    \* loop counters of gbm_decode_frame
    y_block,
    pc,         \* position of the caller: which step comes next
    ret,        \* value returned by the last call
    op,         \* the last operation performed in the current macroblock
    mb,         \* the macroblock being decoded: its number (from 1), the
                \* block_offset decode_block_8x8 was called with, and how
                \* many decode_block_WxH calls it has made so far
    covered,    \* pixels of the current macroblock handled by a terminal
                \* block so far, as a function pixel index -> count
    gbs,        \* the GBS file handed to gbs_audio_init
    audio_state,\* the static state struct of gbs_audio.c
    snd,        \* the sound hardware, the PCM buffers and the position of
                \* the audio call in progress
    pack        \* the run of the packager (gbm_packager.c): its arguments,
                \* the files present and the position of main

vars == <<data, hdr_version, wild, version, offset, refArg, seed, dst, ctx,
          frame, stack, x_block, y_block, pc, ret, op, mb, covered,
          gbs, audio_state, snd, pack>>

audio == <<gbs, audio_state, snd>>

\* the value of the audio variables while only video is modelled
NoAudio == "unused"

\* the value of pack while the player is modelled
NoPack == "unused"

---------------------------------------------------------------------------
(* Program constants.                                                      *)

FRAME_WIDTH == 240
FRAME_HEIGHT == 160
ROW_BYTES == FRAME_WIDTH * 2
ROW_STRIDE == ROW_BYTES \div 2
FRAME_PIXELS == FRAME_WIDTH * FRAME_HEIGHT

GBM_VERSION_GEN1 == 6
GBM_VERSION_GEN3 == 5
GBM_VERSION_V130 == 4

U16 == 2 ^ 16

---------------------------------------------------------------------------
(* Bitwise operations on naturals.                                         *)

RECURSIVE BitAnd(_, _)
BitAnd(a, b) ==
    IF a = 0 \/ b = 0 THEN 0
    ELSE (a % 2) * (b % 2) + 2 * BitAnd(a \div 2, b \div 2)

RECURSIVE BitOr(_, _)
BitOr(a, b) ==
    IF a = 0 THEN b
    ELSE IF b = 0 THEN a
    ELSE (IF a % 2 = 1 \/ b % 2 = 1 THEN 1 ELSE 0) + 2 * BitOr(a \div 2, b \div 2)

RECURSIVE BitXor(_, _)
BitXor(a, b) ==
    IF a = 0 THEN b
    ELSE IF b = 0 THEN a
    ELSE ((a + b) % 2) + 2 * BitXor(a \div 2, b \div 2)

(* u32 values as two u16 halves.                                           *)
W32(h, l) == [hi |-> h, lo |-> l]

\* w << n, for 0 < n < 16, truncated to 32 bits
Shl32(w, n) ==
    W32((w.hi * (2 ^ n) + w.lo \div (2 ^ (16 - n))) % U16, (w.lo * (2 ^ n)) % U16)

\* w >> n, for 16 <= n < 32: the result fits an int
Shr32(w, n) == w.hi \div (2 ^ (n - 16))

\* w | k, for a constant k < 2^16
Or32(w, k) == W32(w.hi, BitOr(w.lo, k))

\* (a + b) mod 2^32
Add32(a, b) ==
    W32((a.hi + b.hi + (a.lo + b.lo) \div U16) % U16, (a.lo + b.lo) % U16)

---------------------------------------------------------------------------
(* Reading the GBM bytes.  A read outside the buffer yields the byte       *)
(* `wild` (whatever memory follows the buffer).                            *)

DataAt(d, w, i) == IF i >= 0 /\ i < Len(d) THEN d[i + 1] ELSE w

read_u32_unaligned(d, w, p) ==
    W32(DataAt(d, w, p + 2) + 256 * DataAt(d, w, p + 3),
        DataAt(d, w, p) + 256 * DataAt(d, w, p + 1))

read_u16_unaligned(d, w, p) == DataAt(d, w, p) + 256 * DataAt(d, w, p + 1)

---------------------------------------------------------------------------
(* The flag bit reader.  Each operator returns [ret, ctx]: the value       *)
(* returned and the context after the call.                                *)

SENTINEL == W32(32768, 0)

next_bit(d, w, c) ==
    IF c.state = SENTINEL
    THEN LET word == read_u32_unaligned(d, w, c.flag_ptr)
         IN  [ret |-> Shr32(word, 31),
              ctx |-> [c EXCEPT !.flag_ptr = @ + 4,
                                !.state = Or32(Shl32(word, 1), 1)]]
    ELSE [ret |-> Shr32(c.state, 31),
          ctx |-> [c EXCEPT !.state = Shl32(@, 1)]]

\* A faulty variant of next_2bits, to show that the equivalence with two
\* next_bit calls is sensitive: its slow path plants the sentinel one bit
\* too low.
next_2bits_low_sentinel(d, w, c) ==
    LET state == c.state IN
    IF BitAnd(state.hi, 16383) # 0 \/ state.lo # 0
    THEN [ret |-> Shr32(state, 30),
          ctx |-> [c EXCEPT !.state = Shl32(state, 2)]]
    ELSE IF BitAnd(state.hi, 16384) # 0
    THEN LET bit0 == Shr32(state, 31)
             word == read_u32_unaligned(d, w, c.flag_ptr)
             bit1 == Shr32(word, 31)
         IN  [ret |-> bit0 * 2 + bit1,
              ctx |-> [c EXCEPT !.flag_ptr = @ + 4,
                                !.state = Or32(Shl32(word, 1), 1)]]
    ELSE LET word == read_u32_unaligned(d, w, c.flag_ptr)
         IN  [ret |-> Shr32(word, 30),
              ctx |-> [c EXCEPT !.flag_ptr = @ + 4,
                                !.state = Or32(Shl32(word, 2), 1)]]

next_2bits(d, w, c) ==
    LET state == c.state IN
    IF BitAnd(state.hi, 16383) # 0 \/ state.lo # 0
    THEN \* fast path: at least two data bits
         [ret |-> Shr32(state, 30),
          ctx |-> [c EXCEPT !.state = Shl32(state, 2)]]
    ELSE IF BitAnd(state.hi, 16384) # 0
    THEN \* medium path: one data bit left
         LET bit0 == Shr32(state, 31)
             word == read_u32_unaligned(d, w, c.flag_ptr)
             bit1 == Shr32(word, 31)
         IN  [ret |-> bit0 * 2 + bit1,
              ctx |-> [c EXCEPT !.flag_ptr = @ + 4,
                                !.state = Or32(Shl32(word, 1), 1)]]
    ELSE \* slow path: no data bit left
         LET word == read_u32_unaligned(d, w, c.flag_ptr)
         IN  [ret |-> Shr32(word, 30),
              ctx |-> [c EXCEPT !.flag_ptr = @ + 4,
                                !.state = Or32(Shl32(word, 2), 2)]]

---------------------------------------------------------------------------
(* The codebook of displacements (bytes), indexed from 1 here.             *)

CODEBOOK_OFFSETS == <<
    -3856, -3854, -3852, -3850, -3848, -3846, -3844, -3842,
    -3840, -3838, -3836, -3834, -3832, -3830, -3828, -3826,
    -3376, -3374, -3372, -3370, -3368, -3366, -3364, -3362,
    -3360, -3358, -3356, -3354, -3352, -3350, -3348, -3346,
    -2896, -2894, -2892, -2890, -2888, -2886, -2884, -2882,
    -2880, -2878, -2876, -2874, -2872, -2870, -2868, -2866,
    -2416, -2414, -2412, -2410, -2408, -2406, -2404, -2402,
    -2400, -2398, -2396, -2394, -2392, -2390, -2388, -2386,
    -1936, -1934, -1932, -1930, -1928, -1926, -1924, -1922,
    -1920, -1918, -1916, -1914, -1912, -1910, -1908, -1906,
    -1456, -1454, -1452, -1450, -1448, -1446, -1444, -1442,
    -1440, -1438, -1436, -1434, -1432, -1430, -1428, -1426,
    -976, -974, -972, -970, -968, -966, -964, -962,
    -960, -958, -956, -954, -952, -950, -948, -946,
    -496, -494, -492, -490, -488, -486, -484, -482,
    -480, -478, -476, -474, -472, -470, -468, -466,
    -16, -14, -12, -10, -8, -6, -4, -2,
    0, 2, 4, 6, 8, 10, 12, 14,
    464, 466, 468, 470, 472, 474, 476, 478,
    480, 482, 484, 486, 488, 490, 492, 494,
    944, 946, 948, 950, 952, 954, 956, 958,
    960, 962, 964, 966, 968, 970, 972, 974,
    1424, 1426, 1428, 1430, 1432, 1434, 1436, 1438,
    1440, 1442, 1444, 1446, 1448, 1450, 1452, 1454,
    1904, 1906, 1908, 1910, 1912, 1914, 1916, 1918,
    1920, 1922, 1924, 1926, 1928, 1930, 1932, 1934,
    2384, 2386, 2388, 2390, 2392, 2394, 2396, 2398,
    2400, 2402, 2404, 2406, 2408, 2410, 2412, 2414,
    2864, 2866, 2868, 2870, 2872, 2874, 2876, 2878,
    2880, 2882, 2884, 2886, 2888, 2890, 2892, 2894,
    3344, 3346, 3348, 3350, 3352, 3354, 3356, 3358,
    3360, 3362, 3364, 3366, 3368, 3370, 3372, 3374 >>

\* A faulty codebook, to show that the table law is sensitive: rows are
\* taken to be 512 bytes apart.
CodebookOffset_stride512(code) == ((code \div 16) - 8) * 512 + ((code % 16) - 8) * 2

\* CODEBOOK_OFFSETS[code] for a u8 code
CodebookOffset(code) == CODEBOOK_OFFSETS[code + 1]

---------------------------------------------------------------------------
(* Frame buffers.  A buffer holds FRAME_PIXELS u16 pixels.  Its initial    *)
(* contents are InitPixel; dst is kept as the map of the pixels written    *)
(* so far.  The reference buffer is never written.  E = [same, seed, wild] *)
(* says whether ctx.ref is the dst buffer, which initial contents the      *)
(* buffers have, and what a read outside a buffer returns.                 *)

InitPixel(buf, s, i) ==
    (i * 2749 + s * 977 + (IF buf = "other" THEN 12345 ELSE 0)) % U16

DstAt(E, m, i) ==
    IF i < 0 \/ i >= FRAME_PIXELS THEN E.wild * 257
    ELSE IF i \in DOMAIN m THEN m[i]
    ELSE InitPixel("dst", E.seed, i)

\* ctx->ref[i]
RefAt(E, m, i) ==
    IF E.same THEN DstAt(E, m, i)
    ELSE IF i < 0 \/ i >= FRAME_PIXELS THEN E.wild * 257
    ELSE InitPixel("other", E.seed, i)

\* ctx->dst[i] = v
Poke(m, i, v) == (i :> v) @@ m

NoPixels == [j \in {} |-> 0]

to_signed16(val) == IF val >= 32768 THEN val - U16 ELSE val

---------------------------------------------------------------------------
(* Block operations.  Each returns the dst map after the operation; the    *)
(* loops run in the order of the source, so that a read of a pixel the     *)
(* same operation wrote earlier sees the new value.  d and s are pixel     *)
(* indices (the u16 pointers), k counts the inner-loop iterations done,    *)
(* m2 is the map after the iteration.                                      *)

\* The value of e, computed before it is used: the element of {e}.
Only(S) == CHOOSE x \in S : TRUE

RECURSIVE copy_u32_loop(_, _, _, _, _, _, _)
copy_u32_loop(E, m, d, s, words, k, n) ==
    IF k >= n THEN m
    ELSE LET r  == k \div words
             i  == k % words
             sp == s + r * ROW_STRIDE + 2 * i
             dp == d + r * ROW_STRIDE + 2 * i
             lo == RefAt(E, m, sp)
             hi == RefAt(E, m, sp + 1)
         IN  Only({copy_u32_loop(E, m2, d, s, words, k + 1, n) :
                      m2 \in {Poke(Poke(m, dp, lo), dp + 1, hi)}})

copy_u32_block(E, m, dst_off, ref_off, rows, words) ==
    copy_u32_loop(E, m, dst_off \div 2, ref_off \div 2, words, 0, rows * words)

RECURSIVE fill_u32_loop(_, _, _, _, _, _)
fill_u32_loop(m, d, words, color, k, n) ==
    IF k >= n THEN m
    ELSE LET dp == d + (k \div words) * ROW_STRIDE + 2 * (k % words)
         IN  Only({fill_u32_loop(m2, d, words, color, k + 1, n) :
                      m2 \in {Poke(Poke(m, dp, color), dp + 1, color)}})

fill_u32_block(m, dst_off, rows, words, color) ==
    fill_u32_loop(m, dst_off \div 2, words, color, 0, rows * words)

\* ((val & 0x7FFF7FFF) + delta32), val = sp[0] | sp[1] << 16
delta_u32_word(lo, hi, delta) ==
    Add32(W32(BitAnd(hi, 32767), BitAnd(lo, 32767)), W32(delta % U16, delta % U16))

RECURSIVE delta_u32_loop(_, _, _, _, _, _, _, _)
delta_u32_loop(E, m, d, s, words, delta, k, n) ==
    IF k >= n THEN m
    ELSE LET r   == k \div words
             i   == k % words
             sp  == s + r * ROW_STRIDE + 2 * i
             dp  == d + r * ROW_STRIDE + 2 * i
             sum == delta_u32_word(RefAt(E, m, sp), RefAt(E, m, sp + 1), delta)
         IN  Only({delta_u32_loop(E, m2, d, s, words, delta, k + 1, n) :
                      m2 \in {Poke(Poke(m, dp, sum.lo), dp + 1, sum.hi)}})

delta_u32_block(E, m, dst_off, ref_off, rows, words, delta) ==
    delta_u32_loop(E, m, dst_off \div 2, ref_off \div 2, words, delta, 0, rows * words)

RECURSIVE copy_u16_loop(_, _, _, _, _, _, _)
copy_u16_loop(E, m, d, s, halfwords, k, n) ==
    IF k >= n THEN m
    ELSE LET r == k \div halfwords
             i == k % halfwords
         IN  Only({copy_u16_loop(E, m2, d, s, halfwords, k + 1, n) :
                      m2 \in {Poke(m, d + r * ROW_STRIDE + i,
                                   RefAt(E, m, s + r * ROW_STRIDE + i))}})

copy_u16_block(E, m, dst_off, ref_off, rows, halfwords) ==
    copy_u16_loop(E, m, dst_off \div 2, ref_off \div 2, halfwords, 0, rows * halfwords)

RECURSIVE fill_u16_loop(_, _, _, _, _, _)
fill_u16_loop(m, d, halfwords, color, k, n) ==
    IF k >= n THEN m
    ELSE Only({fill_u16_loop(m2, d, halfwords, color, k + 1, n) :
                  m2 \in {Poke(m, d + (k \div halfwords) * ROW_STRIDE + (k % halfwords),
                               color)}})

fill_u16_block(m, dst_off, rows, halfwords, color) ==
    fill_u16_loop(m, dst_off \div 2, halfwords, color, 0, rows * halfwords)

\* d[i] = s[i] + delta, stored as u16
delta_u16_pixel(s, delta) == (s + delta) % U16

RECURSIVE delta_u16_loop(_, _, _, _, _, _, _, _)
delta_u16_loop(E, m, d, s, halfwords, delta, k, n) ==
    IF k >= n THEN m
    ELSE LET r == k \div halfwords
             i == k % halfwords
         IN  Only({delta_u16_loop(E, m2, d, s, halfwords, delta, k + 1, n) :
                      m2 \in {Poke(m, d + r * ROW_STRIDE + i,
                                   delta_u16_pixel(RefAt(E, m, s + r * ROW_STRIDE + i),
                                                   delta))}})

delta_u16_block(E, m, dst_off, ref_off, rows, halfwords, delta) ==
    delta_u16_loop(E, m, dst_off \div 2, ref_off \div 2, halfwords, delta, 0, rows * halfwords)


---------------------------------------------------------------------------
(* The fourteen decode_block_WxH functions and decode_block_8x8, as        *)
(* tables over the block kind "WxH".                                       *)

Kinds == {"8x8", "8x4", "4x8", "2x8", "1x8", "4x4", "8x2", "2x4", "4x2",
          "8x1", "1x4", "2x2", "4x1", "1x2", "2x1"}

\* the blocks of two pixels, whose `10` and `11` branches differ
TwoPixel(k) == k \in {"1x2", "2x1"}

\* the blocks whose `10` branch reads no direction bit
Forced(k) == k \in {"1x8", "8x1", "1x4", "4x1"}

\* the blocks handled with the u16 operations
Narrow(k) == k \in {"1x8", "1x4", "1x2"}

\* the rows argument the function passes to its block operations
Rows(k) ==
    CASE k \in {"8x8", "4x8", "2x8", "1x8"} -> 8
      [] k \in {"8x4", "4x4", "2x4", "1x4"} -> 4
      [] k \in {"8x2", "4x2", "2x2", "1x2"} -> 2
      [] k \in {"8x1", "4x1", "2x1"} -> 1

\* the words (u32 operations) or halfwords (u16 operations) argument
Units(k) ==
    CASE k \in {"8x8", "8x4", "8x2", "8x1"} -> 4
      [] k \in {"4x8", "4x4", "4x2", "4x1"} -> 2
      [] k \in {"2x8", "2x4", "2x2", "2x1"} -> 1
      [] k \in {"1x8", "1x4", "1x2"} -> 1

\* A faulty Advance, to show that the tiling property is sensitive: the
\* four-pixel-wide blocks step on by four bytes instead of eight.
Advance_half4(k) ==
    CASE k = "8x8" -> 0
      [] k = "8x4" -> 1920
      [] k = "8x2" -> 960
      [] k = "8x1" -> 480
      [] k \in {"4x8", "4x4", "4x2", "4x1"} -> 4
      [] k \in {"2x8", "2x4", "2x2", "2x1"} -> 4
      [] k \in {"1x8", "1x4", "1x2"} -> 2

\* what the function adds to block_offset after a terminal branch
Advance(k) ==
    CASE k = "8x8" -> 0
      [] k = "8x4" -> 1920
      [] k = "8x2" -> 960
      [] k = "8x1" -> 480
      [] k \in {"4x8", "4x4", "4x2", "4x1"} -> 8
      [] k \in {"2x8", "2x4", "2x2", "2x1"} -> 4
      [] k \in {"1x8", "1x4", "1x2"} -> 2

\* A faulty subdivision, to show that the bound is sensitive: the nested
\* calls decode blocks of the caller's own size.
Split_whole(k, bit) == [child |-> k, mid |-> 0, post |-> 0]

\* the `10` branch: the function called twice, what is added to
\* block_offset between the two calls (mid) and after them (post);
\* bit is the direction bit read (0 for the forced splits)
Split(k, bit) ==
    CASE k = "8x8" /\ bit = 0 -> [child |-> "8x4", mid |-> 0, post |-> 0]
      [] k = "8x8" /\ bit = 1 -> [child |-> "4x8", mid |-> 0, post |-> 0]
      [] k = "8x4" /\ bit = 0 -> [child |-> "8x2", mid |-> 0, post |-> 0]
      [] k = "8x4" /\ bit = 1 -> [child |-> "4x4", mid |-> 0, post |-> 1904]
      [] k = "4x8" /\ bit = 0 -> [child |-> "4x4", mid |-> 1912, post |-> -1920]
      [] k = "4x8" /\ bit = 1 -> [child |-> "2x8", mid |-> 0, post |-> 0]
      [] k = "2x8" /\ bit = 0 -> [child |-> "2x4", mid |-> 1916, post |-> -1920]
      [] k = "2x8" /\ bit = 1 -> [child |-> "1x8", mid |-> 0, post |-> 0]
      [] k = "1x8"            -> [child |-> "1x4", mid |-> 1918, post |-> -1920]
      [] k = "4x4" /\ bit = 0 -> [child |-> "4x2", mid |-> 952, post |-> -960]
      [] k = "4x4" /\ bit = 1 -> [child |-> "2x4", mid |-> 0, post |-> 0]
      [] k = "8x2" /\ bit = 0 -> [child |-> "8x1", mid |-> 0, post |-> 0]
      [] k = "8x2" /\ bit = 1 -> [child |-> "4x2", mid |-> 0, post |-> 944]
      [] k = "2x4" /\ bit = 0 -> [child |-> "2x2", mid |-> 956, post |-> -960]
      [] k = "2x4" /\ bit = 1 -> [child |-> "1x4", mid |-> 0, post |-> 0]
      [] k = "4x2" /\ bit = 0 -> [child |-> "4x1", mid |-> 472, post |-> -480]
      [] k = "4x2" /\ bit = 1 -> [child |-> "2x2", mid |-> 0, post |-> 0]
      [] k = "8x1"            -> [child |-> "4x1", mid |-> 0, post |-> 464]
      [] k = "1x4"            -> [child |-> "1x2", mid |-> 958, post |-> -960]
      [] k = "2x2" /\ bit = 0 -> [child |-> "2x1", mid |-> 476, post |-> -480]
      [] k = "2x2" /\ bit = 1 -> [child |-> "1x2", mid |-> 0, post |-> 0]
      [] k = "4x1"            -> [child |-> "2x1", mid |-> 0, post |-> 0]

\* A faulty copy, to show that the displaced-copy property is sensitive:
\* the source is taken one pixel too far.
BlockCopy_off1(k, E, m, dst_off, ref_off) ==
    IF Narrow(k) THEN copy_u16_block(E, m, dst_off, ref_off + 2, Rows(k), Units(k))
    ELSE copy_u32_block(E, m, dst_off, ref_off + 2, Rows(k), Units(k))

\* A faulty fill, to show that the fill property is sensitive: the words
\* argument is taken as a count of pixels.
BlockFill_halfwords(k, m, dst_off, color) ==
    fill_u16_block(m, dst_off, Rows(k), Units(k), color)

\* the copy, delta-add and fill a function of kind k performs
BlockCopy(k, E, m, dst_off, ref_off) ==
    IF Narrow(k) THEN copy_u16_block(E, m, dst_off, ref_off, Rows(k), Units(k))
    ELSE copy_u32_block(E, m, dst_off, ref_off, Rows(k), Units(k))

BlockDelta(k, E, m, dst_off, ref_off, delta) ==
    IF Narrow(k) THEN delta_u16_block(E, m, dst_off, ref_off, Rows(k), Units(k), delta)
    ELSE delta_u32_block(E, m, dst_off, ref_off, Rows(k), Units(k), delta)

BlockFill(k, m, dst_off, color) ==
    IF k = "2x1" THEN Poke(Poke(m, dst_off \div 2, color), dst_off \div 2 + 1, color)
    ELSE IF Narrow(k) THEN fill_u16_block(m, dst_off, Rows(k), Units(k), color)
    ELSE fill_u32_block(m, dst_off, Rows(k), Units(k), color)

\* A faulty two-colour fill, to show that the two-pixel property is
\* sensitive: the two colours are stored the other way round.
BlockFill2_swapped(k, m, dst_off, color0, color1) ==
    IF k = "1x2"
    THEN Poke(Poke(m, dst_off \div 2, color1), (dst_off + ROW_BYTES) \div 2, color0)
    ELSE Poke(Poke(m, dst_off \div 2, color1), dst_off \div 2 + 1, color0)

\* the two-colour fill of decode_block_1x2 and decode_block_2x1
BlockFill2(k, m, dst_off, color0, color1) ==
    IF k = "1x2"
    THEN Poke(Poke(m, dst_off \div 2, color0), (dst_off + ROW_BYTES) \div 2, color1)
    ELSE Poke(Poke(m, dst_off \div 2, color0), dst_off \div 2 + 1, color1)

read_palette_color(d, w, c) ==
    [ret |-> read_u16_unaligned(d, w, c.palette_ptr),
     ctx |-> [c EXCEPT !.palette_ptr = @ + 2]]

read_code(d, w, c) ==
    [ret |-> DataAt(d, w, c.payload_ptr),
     ctx |-> [c EXCEPT !.payload_ptr = @ + 1]]


---------------------------------------------------------------------------
(* Geometry of a block kind, for stating where a block lies: its width and *)
(* height in pixels and the pixel indices of the block at a byte offset.   *)

PixW(k) ==
    CASE k \in {"8x8", "8x4", "8x2", "8x1"} -> 8
      [] k \in {"4x8", "4x4", "4x2", "4x1"} -> 4
      [] k \in {"2x8", "2x4", "2x2", "2x1"} -> 2
      [] k \in {"1x8", "1x4", "1x2"} -> 1

PixH(k) ==
    CASE k \in {"8x8", "4x8", "2x8", "1x8"} -> 8
      [] k \in {"8x4", "4x4", "2x4", "1x4"} -> 4
      [] k \in {"8x2", "4x2", "2x2", "1x2"} -> 2
      [] k \in {"8x1", "4x1", "2x1"} -> 1

Rect(off, w, h) ==
    {off \div 2 + r * FRAME_WIDTH + i : r \in 0 .. h - 1, i \in 0 .. w - 1}

KindRect(k, off) == Rect(off, PixW(k), PixH(k))

AddCover(cov, rect) ==
    [p \in DOMAIN cov \cup rect |->
        (IF p \in DOMAIN cov THEN cov[p] ELSE 0) + (IF p \in rect THEN 1 ELSE 0)]

---------------------------------------------------------------------------
(* gbm_set_version and gbm_decode_frame.                                   *)

\* the XOR key the documentation gives for a version byte
VersionKey(v) ==
    CASE v = GBM_VERSION_GEN1 -> 54889     \* 0xD669
      [] v = GBM_VERSION_GEN3 -> 54956     \* 0xD6AC
      [] OTHER -> 0

\* u16 flag_bytes = bit_enc ^ 0xD6AC
FlagBytes(bit_enc) == BitXor(bit_enc, 54956)

\* A faulty next_offset, to show that the return-value property is
\* sensitive: the two bytes of the length field are not counted.
NextOffset_nolen(off, frame_len) == off + frame_len

\* u32 next_offset = offset + 2 + frame_len
NextOffset(off, frame_len) == off + 2 + frame_len

NoCtx ==
    [state |-> W32(0, 0), flag_ptr |-> 0, flag_end |-> 0, palette_ptr |-> 0,
     palette_end |-> 0, payload_ptr |-> 0, payload_end |-> 0, ref |-> "dst",
     row_offset |-> 0, block_offset |-> 0]

NoFrame ==
    [frame_len |-> 0, bit_enc |-> 0, palette_bytes |-> 0, next_offset |-> 0,
     flag_bytes |-> 0]

NoOp == [name |-> "none", kind |-> "8x8", off |-> 0, ref_off |-> 0, code |-> 0,
         color |-> 0, writes |-> {}]

\* gbm_set_version(version): called once after loading the GBM header
GbmSetVersion ==
    /\ pc = "open"
    /\ version' = hdr_version
    /\ pc' = "idle"
    /\ UNCHANGED <<audio, pack>>
    /\ UNCHANGED <<data, hdr_version, wild, offset, refArg, seed, dst, ctx, frame,
                   stack, x_block, y_block, ret, op, mb, covered>>

\* gbm_decode_frame up to the decode loop
StartFrame ==
    /\ pc = "idle"
    /\ LET frame_len     == read_u16_unaligned(data, wild, offset)
           bit_enc       == read_u16_unaligned(data, wild, offset + 2)
           palette_bytes == read_u16_unaligned(data, wild, offset + 4)
           next_offset   == NextOffset(offset, frame_len)
           flag_bytes    == FlagBytes(bit_enc)
           flag_start    == offset + 6
           flag_end      == flag_start + flag_bytes
           pal_start     == flag_end
           pal_end       == pal_start + palette_bytes
       IN  /\ frame' = [frame_len |-> frame_len, bit_enc |-> bit_enc,
                        palette_bytes |-> palette_bytes,
                        next_offset |-> next_offset, flag_bytes |-> flag_bytes]
           /\ ctx' = [state |-> SENTINEL,
                      flag_ptr |-> flag_start, flag_end |-> flag_end,
                      palette_ptr |-> pal_start, palette_end |-> pal_end,
                      payload_ptr |-> pal_end, payload_end |-> next_offset,
                      ref |-> IF refArg = "other" THEN "other" ELSE "dst",
                      row_offset |-> 0, block_offset |-> 0]
    /\ x_block' = 0
    /\ y_block' = 0
    /\ pc' = "loop"
    /\ UNCHANGED <<audio, pack>>
    /\ UNCHANGED <<data, hdr_version, wild, version, offset, refArg, seed, dst,
                   stack, ret, op, mb, covered>>

\* one iteration of the decode loop, up to the call of decode_block_8x8
MacroblockLoop ==
    /\ pc = "loop"
    /\ y_block < 20
    /\ LET row_offset == y_block * 8 * ROW_BYTES
           block_offset == row_offset + x_block * 8 * 2
       IN  /\ ctx' = [ctx EXCEPT !.row_offset = row_offset,
                                 !.block_offset = block_offset]
           /\ stack' = <<[kind |-> "8x8", at |-> "entry", dir |-> 0,
                          off |-> block_offset]>>
           /\ mb' = [n |-> mb.n + 1, off |-> block_offset, calls |-> 1]
    /\ covered' = NoPixels
    /\ op' = NoOp
    /\ pc' = "block"
    /\ UNCHANGED <<audio, pack>>
    /\ UNCHANGED <<data, hdr_version, wild, version, offset, refArg, seed, dst,
                   frame, x_block, y_block, ret>>

\* the decode loop has run 20 x 30 times: return next_offset
FrameReturn ==
    /\ pc = "loop"
    /\ y_block >= 20
    /\ ret' = frame.next_offset
    /\ pc' = "done"
    /\ UNCHANGED <<audio, pack>>
    /\ UNCHANGED <<data, hdr_version, wild, version, offset, refArg, seed, dst,
                   ctx, frame, stack, x_block, y_block, op, mb, covered>>

---------------------------------------------------------------------------
(* decode_block_WxH.  A stack entry is one active call: its kind, where it *)
(* is (entry: before the switch; mid: in its first nested call; post: in   *)
(* its second), the direction bit of its split, and the block_offset it    *)
(* was entered with.                                                       *)

Top == stack[Len(stack)]

Pop == SubSeq(stack, 1, Len(stack) - 1)

Env == [same |-> ctx.ref = "dst", seed |-> seed, wild |-> wild]

Sel == next_2bits(data, wild, ctx)

\* The innermost call returns.  When it is decode_block_8x8, control is
\* back in the decode loop, whose x_block++ (and y_block++) follow.
ReturnFromBlock ==
    /\ stack' = Pop
    /\ IF Len(stack) = 1
       THEN /\ pc' = "loop"
            /\ x_block' = IF x_block = 29 THEN 0 ELSE x_block + 1
            /\ y_block' = IF x_block = 29 THEN y_block + 1 ELSE y_block
       ELSE UNCHANGED <<pc, x_block, y_block>>

\* A variant of case 0 that performs the same-position copy, to show that
\* the no-write property of an all-unchanged frame is sensitive.
DecodeUnchanged_copies ==
    /\ pc = "block" /\ Top.at = "entry"
    /\ Sel.ret = 0
    /\ dst' = BlockCopy(Top.kind, Env, dst, ctx.block_offset, ctx.block_offset)
    /\ ctx' = [Sel.ctx EXCEPT !.block_offset = @ + Advance(Top.kind)]
    /\ op' = [name |-> "unchanged", kind |-> Top.kind, off |-> ctx.block_offset,
              ref_off |-> ctx.block_offset, code |-> 0, color |-> 0,
              writes |-> KindRect(Top.kind, ctx.block_offset)]
    /\ covered' = AddCover(covered, KindRect(Top.kind, ctx.block_offset))
    /\ ReturnFromBlock
    /\ UNCHANGED <<audio, pack>>
    /\ UNCHANGED <<data, hdr_version, wild, version, offset, refArg, seed,
                   frame, ret, mb>>

\* case 0: copy from same position (a no-op)
DecodeUnchanged ==
    /\ pc = "block" /\ Top.at = "entry"
    /\ Sel.ret = 0
    /\ ctx' = [Sel.ctx EXCEPT !.block_offset = @ + Advance(Top.kind)]
    /\ op' = [name |-> "unchanged", kind |-> Top.kind, off |-> ctx.block_offset,
              ref_off |-> ctx.block_offset, code |-> 0, color |-> 0, writes |-> {}]
    /\ covered' = AddCover(covered, KindRect(Top.kind, ctx.block_offset))
    /\ ReturnFromBlock
    /\ UNCHANGED <<audio, pack>>
    /\ UNCHANGED <<data, hdr_version, wild, version, offset, refArg, seed, dst,
                   frame, ret, mb>>

\* case 1: copy with codebook offset
DecodeCopy ==
    /\ pc = "block" /\ Top.at = "entry"
    /\ Sel.ret = 1
    /\ LET rc      == read_code(data, wild, Sel.ctx)
           off     == ctx.block_offset
           ref_off == off + CodebookOffset(rc.ret)
       IN  /\ dst' = BlockCopy(Top.kind, Env, dst, off, ref_off)
           /\ ctx' = [rc.ctx EXCEPT !.block_offset = @ + Advance(Top.kind)]
           /\ op' = [name |-> "copy", kind |-> Top.kind, off |-> off,
                     ref_off |-> ref_off, code |-> rc.ret, color |-> 0,
                     writes |-> DOMAIN BlockCopy(Top.kind, Env, NoPixels, off, ref_off)]
    /\ covered' = AddCover(covered, KindRect(Top.kind, ctx.block_offset))
    /\ ReturnFromBlock
    /\ UNCHANGED <<audio, pack>>
    /\ UNCHANGED <<data, hdr_version, wild, version, offset, refArg, seed, frame,
                   ret, mb>>

\* case 2 (two-pixel blocks) and case 3 with bit 0 (the others): delta-add
DecodeDelta ==
    /\ pc = "block" /\ Top.at = "entry"
    /\ IF TwoPixel(Top.kind) THEN Sel.ret = 2
       ELSE Sel.ret = 3 /\ next_bit(data, wild, Sel.ctx).ret = 0
    /\ LET c1      == IF TwoPixel(Top.kind) THEN Sel.ctx
                      ELSE next_bit(data, wild, Sel.ctx).ctx
           rc      == read_code(data, wild, c1)
           pal     == read_palette_color(data, wild, rc.ctx)
           color   == to_signed16(pal.ret)
           off     == ctx.block_offset
           ref_off == off + CodebookOffset(rc.ret)
       IN  /\ dst' = BlockDelta(Top.kind, Env, dst, off, ref_off, color)
           /\ ctx' = [pal.ctx EXCEPT !.block_offset = @ + Advance(Top.kind)]
           /\ op' = [name |-> "delta", kind |-> Top.kind, off |-> off,
                     ref_off |-> ref_off, code |-> rc.ret, color |-> color,
                     writes |-> DOMAIN BlockDelta(Top.kind, Env, NoPixels, off,
                                                  ref_off, color)]
    /\ covered' = AddCover(covered, KindRect(Top.kind, ctx.block_offset))
    /\ ReturnFromBlock
    /\ UNCHANGED <<audio, pack>>
    /\ UNCHANGED <<data, hdr_version, wild, version, offset, refArg, seed, frame,
                   ret, mb>>

\* case 3 with bit 1: fill; for the two-pixel blocks case 3 is a fill with
\* one colour (bit 0) or two (bit 1)
DecodeFill ==
    /\ pc = "block" /\ Top.at = "entry"
    /\ Sel.ret = 3
    /\ TwoPixel(Top.kind) \/ next_bit(data, wild, Sel.ctx).ret = 1
    /\ LET nb   == next_bit(data, wild, Sel.ctx)
           two  == TwoPixel(Top.kind) /\ nb.ret = 1
           pal0 == read_palette_color(data, wild, nb.ctx)
           pal1 == read_palette_color(data, wild, pal0.ctx)
           off  == ctx.block_offset
       IN  /\ dst' = IF two THEN BlockFill2(Top.kind, dst, off, pal0.ret, pal1.ret)
                     ELSE BlockFill(Top.kind, dst, off, pal0.ret)
           /\ ctx' = [(IF two THEN pal1.ctx ELSE pal0.ctx)
                         EXCEPT !.block_offset = @ + Advance(Top.kind)]
           /\ op' = [name |-> IF two THEN "fill2" ELSE "fill", kind |-> Top.kind,
                     off |-> off, ref_off |-> off, code |-> 0, color |-> pal0.ret,
                     writes |-> DOMAIN (IF two
                                   THEN BlockFill2(Top.kind, NoPixels, off, pal0.ret, pal1.ret)
                                   ELSE BlockFill(Top.kind, NoPixels, off, pal0.ret))]
    /\ covered' = AddCover(covered, KindRect(Top.kind, ctx.block_offset))
    /\ ReturnFromBlock
    /\ UNCHANGED <<audio, pack>>
    /\ UNCHANGED <<data, hdr_version, wild, version, offset, refArg, seed, frame,
                   ret, mb>>

\* case 2: subdivide, up to the first nested call
DecodeSubdivide ==
    /\ pc = "block" /\ Top.at = "entry"
    /\ ~TwoPixel(Top.kind)
    /\ Sel.ret = 2
    /\ LET nb  == IF Forced(Top.kind) THEN [ret |-> 0, ctx |-> Sel.ctx]
                  ELSE next_bit(data, wild, Sel.ctx)
           sp  == Split(Top.kind, nb.ret)
       IN  /\ ctx' = nb.ctx
           /\ stack' = Pop \o <<[Top EXCEPT !.at = "mid", !.dir = nb.ret],
                               [kind |-> sp.child, at |-> "entry", dir |-> 0,
                                off |-> ctx.block_offset]>>
           /\ op' = [name |-> "split", kind |-> Top.kind, off |-> ctx.block_offset,
                     ref_off |-> ctx.block_offset, code |-> 0, color |-> nb.ret,
                     writes |-> {}]
    /\ mb' = [mb EXCEPT !.calls = @ + 1]
    /\ UNCHANGED <<audio, pack>>
    /\ UNCHANGED <<data, hdr_version, wild, version, offset, refArg, seed, dst,
                   frame, x_block, y_block, pc, ret, covered>>

\* the first nested call has returned: adjust block_offset, call again
DecodeSecondChild ==
    /\ pc = "block" /\ Top.at = "mid"
    /\ LET sp  == Split(Top.kind, Top.dir)
           off == ctx.block_offset + sp.mid
       IN  /\ ctx' = [ctx EXCEPT !.block_offset = off]
           /\ stack' = Pop \o <<[Top EXCEPT !.at = "post"],
                               [kind |-> sp.child, at |-> "entry", dir |-> 0,
                                off |-> off]>>
    /\ mb' = [mb EXCEPT !.calls = @ + 1]
    /\ UNCHANGED <<audio, pack>>
    /\ UNCHANGED <<data, hdr_version, wild, version, offset, refArg, seed, dst,
                   frame, x_block, y_block, pc, ret, op, covered>>

\* A faulty return, to show that the offset property is sensitive: the
\* adjustment after the second nested call is left out.
DecodeReturn_unadjusted ==
    /\ pc = "block" /\ Top.at = "post"
    /\ ctx' = ctx
    /\ ReturnFromBlock
    /\ UNCHANGED <<audio, pack>>
    /\ UNCHANGED <<data, hdr_version, wild, version, offset, refArg, seed, dst,
                   frame, ret, op, mb, covered>>

\* the second nested call has returned: adjust block_offset, return
DecodeReturn ==
    /\ pc = "block" /\ Top.at = "post"
    /\ ctx' = [ctx EXCEPT !.block_offset = @ + Split(Top.kind, Top.dir).post]
    /\ ReturnFromBlock
    /\ UNCHANGED <<audio, pack>>
    /\ UNCHANGED <<data, hdr_version, wild, version, offset, refArg, seed, dst,
                   frame, ret, op, mb, covered>>


---------------------------------------------------------------------------
(* SpecBits: the bit reader alone.  The flag stream is FlagWords 32-bit    *)
(* words, each drawn from BitWordSet (bytes in memory order); next_bit and *)
(* next_2bits are called in any order while the stream lasts.              *)

FlagWords == 2

BitWordSet ==
    { <<0, 0, 0, 0>>, <<255, 255, 255, 255>>, <<0, 0, 0, 128>>,
      <<1, 0, 0, 0>>, <<165, 60, 195, 90>>, <<254, 255, 255, 127>> }

RECURSIVE Flatten(_)
Flatten(ws) == IF ws = <<>> THEN <<>> ELSE Head(ws) \o Flatten(Tail(ws))

NoMb == [n |-> 0, off |-> 0, calls |-> 0]

InitBits ==
    /\ \E ws \in [1 .. FlagWords -> BitWordSet] : data = Flatten(ws)
    /\ hdr_version = GBM_VERSION_GEN3
    /\ wild = 0
    /\ version = 0
    /\ offset = 0
    /\ refArg = "NULL"
    /\ seed = 0
    /\ dst = NoPixels
    /\ ctx = [NoCtx EXCEPT !.state = SENTINEL, !.flag_end = 4 * FlagWords]
    /\ frame = NoFrame
    /\ stack = <<>>
    /\ x_block = 0
    /\ y_block = 0
    /\ pc = "bits"
    /\ ret = 0
    /\ op = NoOp
    /\ mb = NoMb
    /\ covered = NoPixels
    /\ gbs = NoAudio
    /\ audio_state = NoAudio
    /\ snd = NoAudio
    /\ pack = NoPack

CallNextBit ==
    /\ pc = "bits"
    /\ LET r == next_bit(data, wild, ctx)
       IN  /\ r.ctx.flag_ptr <= ctx.flag_end
           /\ ctx' = r.ctx
           /\ ret' = r.ret
           /\ op' = [NoOp EXCEPT !.name = "next_bit", !.code = r.ret]
    /\ UNCHANGED <<audio, pack>>
    /\ UNCHANGED <<data, hdr_version, wild, version, offset, refArg, seed, dst,
                   frame, stack, x_block, y_block, pc, mb, covered>>

CallNext2Bits ==
    /\ pc = "bits"
    /\ LET r == next_2bits(data, wild, ctx)
       IN  /\ r.ctx.flag_ptr <= ctx.flag_end
           /\ ctx' = r.ctx
           /\ ret' = r.ret
           /\ op' = [NoOp EXCEPT !.name = "next_2bits", !.code = r.ret]
    /\ UNCHANGED <<audio, pack>>
    /\ UNCHANGED <<data, hdr_version, wild, version, offset, refArg, seed, dst,
                   frame, stack, x_block, y_block, pc, mb, covered>>

NextBits ==
    \/ CallNextBit
    \/ CallNext2Bits

SpecBits == InitBits /\ [][NextBits]_vars

\* C7: in every state the bit reader can be in, next_2bits returns 2*b1 + b2
\* for the bits b1, b2 that two successive next_bit calls return, and leaves
\* the same state word and flag pointer as those two calls; the state word
\* is never zero.
C7_TwoBitsIsTwoSingleBits ==
    pc = "bits" =>
        LET one == next_bit(data, wild, ctx)
            two == next_bit(data, wild, one.ctx)
            both == next_2bits(data, wild, ctx)
        IN  /\ both.ret = 2 * one.ret + two.ret
            /\ both.ctx = two.ctx
            /\ ctx.state # W32(0, 0)
            /\ one.ctx.state # W32(0, 0)
            /\ both.ctx.state # W32(0, 0)

\* next_2bits has just straddled a refill (one bit from the old word, one
\* from the new) and returned 3
C7_Witness ==
    /\ pc = "bits"
    /\ op.name = "next_2bits"
    /\ op.code = 3
    /\ ctx.state.lo % 2 = 1
    /\ ctx.flag_ptr = 8


---------------------------------------------------------------------------
(* SpecOps: one decode_block_WxH call of any block size on the macroblock  *)
(* in row 1, column 1.  The flag stream is one word whose first byte is    *)
(* drawn from OpFlagBytes, the palette holds a drawn colour and a fixed    *)
(* second one, the payload holds a drawn code twice.                       *)

\* 00 unchanged; 01 copy; 10 0 / 10 1 subdivide; 11 0 delta; 11 1 fill;
\* 10 0 11 0, 10 1 01, 10 1 11 0: an operation inside a subdivision
OpFlagBytes == {0, 64, 128, 160, 192, 224, 152, 168, 184}

\* codebook codes 0x00, 0x78, 0x87, 0x88, 0x89, 0xFF
OpCodes == {0, 120, 135, 136, 137, 255}

\* palette colours 0x0001, 0x7C00, 0x8000, 0xFFF0, 0xFFFF
OpColors == {1, 31744, 32768, 65520, 65535}

MaxSeed == 1

OpOrigin == 1 * 8 * ROW_BYTES + 1 * 8 * 2

InitOps ==
    /\ \E fb \in OpFlagBytes, code \in OpCodes, color \in OpColors :
          data = <<0, 0, 0, fb>>
                 \o <<color % 256, color \div 256, 224, 3>>
                 \o <<code, code>>
    /\ hdr_version = GBM_VERSION_GEN3
    /\ wild = 0
    /\ version = GBM_VERSION_GEN3
    /\ offset = 0
    /\ refArg \in {"dst", "other"}
    /\ seed \in 0 .. MaxSeed
    /\ dst = NoPixels
    /\ ctx = [state |-> SENTINEL, flag_ptr |-> 0, flag_end |-> 4,
              palette_ptr |-> 4, palette_end |-> 8,
              payload_ptr |-> 8, payload_end |-> 10,
              ref |-> refArg, row_offset |-> 8 * ROW_BYTES,
              block_offset |-> OpOrigin]
    /\ frame = NoFrame
    /\ \E k \in Kinds :
          stack = <<[kind |-> k, at |-> "entry", dir |-> 0, off |-> OpOrigin]>>
    /\ x_block = 1
    /\ y_block = 1
    /\ pc = "block"
    /\ ret = 0
    /\ op = NoOp
    /\ mb = [n |-> 1, off |-> OpOrigin, calls |-> 1]
    /\ covered = NoPixels
    /\ gbs = NoAudio
    /\ audio_state = NoAudio
    /\ snd = NoAudio
    /\ pack = NoPack

NextOps ==
    \/ DecodeUnchanged
    \/ DecodeCopy
    \/ DecodeDelta
    \/ DecodeFill
    \/ DecodeSubdivide
    \/ DecodeSecondChild
    \/ DecodeReturn

SpecOps == InitOps /\ [][NextOps]_vars

\* the displacement the codebook law gives for index i
CodebookLaw(i) == ((i \div 16) - 8) * 480 + ((i % 16) - 8) * 2

\* C8: for every index i in 0..255 the table entry CODEBOOK_OFFSETS[i] is
\* ((i div 16) - 8) * 480 + ((i mod 16) - 8) * 2; entry 0 is -3856, entry
\* 0x88 is 0, entry 255 is 3374; and every copy or delta-add is displaced
\* by the law's value for the code it read.
C8_CodebookLaw ==
    /\ \A i \in 0 .. 255 : CodebookOffset(i) = CodebookLaw(i)
    /\ CodebookOffset(0) = -3856
    /\ CodebookOffset(136) = 0
    /\ CodebookOffset(255) = 3374
    /\ op.name \in {"copy", "delta"} => op.ref_off - op.off = CodebookLaw(op.code)

\* a copy has just been made with code 255, from 3374 bytes further on
C8_Witness ==
    /\ op.name = "copy"
    /\ op.code = 255
    /\ op.ref_off = op.off + 3374

\* ((s & 0x7FFF) + d) mod 2^16: the scalar per-pixel delta-add
ScalarDelta(s, d) == (BitAnd(s, 32767) + d) % U16

\* the pixels of the even columns of the block of kind k at byte offset off
\* (the first pixel of each 32-bit word)
WordStarts(k, off) ==
    {off \div 2 + r * FRAME_WIDTH + 2 * i : r \in 0 .. PixH(k) - 1,
                                            i \in 0 .. PixW(k) \div 2 - 1}

\* C4: after a delta-add made by delta_u32_block from a separate reference
\* buffer, for every pixel pair (s0, s1) of a 32-bit word whose bit 15 is
\* clear in both, the first destination pixel holds ((s0 & 0x7FFF) + d) mod
\* 2^16 and the second ((s1 & 0x7FFF) + d) mod 2^16, for every signed d.
C4_PackedDeltaIsScalar ==
    (op.name = "delta" /\ ~Narrow(op.kind) /\ ctx.ref = "other") =>
        \A p \in WordStarts(op.kind, op.off) :
            LET sp == p + (op.ref_off - op.off) \div 2
                s0 == RefAt(Env, dst, sp)
                s1 == RefAt(Env, dst, sp + 1)
            IN  (s0 < 32768 /\ s1 < 32768) =>
                    /\ DstAt(Env, dst, p) = ScalarDelta(s0, op.color)
                    /\ DstAt(Env, dst, p + 1) = ScalarDelta(s1, op.color)

\* C5: after a delta-add on a one-pixel-wide block (1x8, 1x4, 1x2) from a
\* separate reference buffer, every destination pixel holds
\* ((s & 0x7FFF) + d) mod 2^16 for its source pixel s, also when s has
\* bit 15 set.
C5_NarrowDeltaMasksBit15 ==
    (op.name = "delta" /\ Narrow(op.kind) /\ ctx.ref = "other") =>
        \A p \in KindRect(op.kind, op.off) :
            DstAt(Env, dst, p) =
                ScalarDelta(RefAt(Env, dst, p + (op.ref_off - op.off) \div 2), op.color)

\* C6: when ref is the dst buffer and a copy is displaced within its own
\* rows by less than the block width, every destination pixel ends up with
\* the value its source pixel had before the copy started.
C6_OverlappingCopyReadsBeforeWrite ==
    [][(/\ pc = "block"
        /\ Top.at = "entry"
        /\ Sel.ret = 1
        /\ ctx.ref = "dst"
        /\ LET disp == CodebookOffset(read_code(data, wild, Sel.ctx).ret)
           IN  disp # 0 /\ disp > -2 * PixW(Top.kind) /\ disp < 2 * PixW(Top.kind))
       => \A p \in KindRect(Top.kind, ctx.block_offset) :
             DstAt(Env, dst', p) =
                 DstAt(Env, dst,
                       p + CodebookOffset(read_code(data, wild, Sel.ctx).ret) \div 2)]_vars


---------------------------------------------------------------------------
(* Spec: gbm_decode_frame over one frame record.  The frames decoded are   *)
(* built here: a frame is a sequence of flag bits (two or more per         *)
(* macroblock), packed into little-endian 32-bit words read from the top   *)
(* bit down, followed by the palette and the payload.                      *)

\* the flag bits of a terminal branch: unchanged, copy, delta-add, fill
\* with one colour, fill with two colours (two-pixel blocks only)
OpBits(k, o) ==
    CASE o = "U" -> <<0, 0>>
      [] o = "C" -> <<0, 1>>
      [] o = "D" -> IF TwoPixel(k) THEN <<1, 0>> ELSE <<1, 1, 0>>
      [] o = "F" -> IF TwoPixel(k) THEN <<1, 1, 0>> ELSE <<1, 1, 1>>
      [] o = "F2" -> <<1, 1, 1>>

\* The flag bits of a macroblock subdivided MaxDepth-or-t.depth levels deep
\* whose terminal blocks all take branch t.op.  The root splits in
\* direction t.root, every other block in the direction given by which
\* child it is (last: 0 first, 1 second), so that every block size is
\* reached and split both ways.
RECURSIVE TreeBits(_, _, _, _)
TreeBits(k, depth, last, t) ==
    IF TwoPixel(k) \/ depth >= t.depth THEN OpBits(k, t.op)
    ELSE LET dir == IF Forced(k) THEN 0 ELSE IF depth = 0 THEN t.root ELSE last
             ch  == Split(k, dir).child
         IN  <<1, 0>> \o (IF Forced(k) THEN <<>> ELSE <<dir>>)
                 \o TreeBits(ch, depth + 1, 0, t) \o TreeBits(ch, depth + 1, 1, t)

MaxDepth == 5

TreeOps == <<"U", "C", "D", "F", "F2">>

\* the trees of a frame, numbered from 0: every depth, branch and root
\* direction
NumTrees == (MaxDepth + 1) * Len(TreeOps) * 2

Tree(j) ==
    [depth |-> j % (MaxDepth + 1),
     op    |-> TreeOps[((j \div (MaxDepth + 1)) % Len(TreeOps)) + 1],
     root  |-> j \div ((MaxDepth + 1) * Len(TreeOps))]

RECURSIVE TreesBits(_)
TreesBits(j) ==
    IF j >= NumTrees THEN <<>>
    ELSE TreeBits("8x8", 0, 0, Tree(j)) \o TreesBits(j + 1)

\* the number of macroblocks that read `00` before the first tree
LeadBlocks == 540

MACROBLOCKS == (FRAME_WIDTH \div 8) * (FRAME_HEIGHT \div 8)

\* flag bits of the two kinds of frame: all macroblocks unchanged, or
\* LeadBlocks unchanged macroblocks, then the trees, then unchanged ones
FrameBits(content) ==
    IF content = "zero" THEN [n \in 1 .. 2 * MACROBLOCKS |-> 0]
    ELSE [n \in 1 .. 2 * LeadBlocks |-> 0] \o TreesBits(0)
             \o [n \in 1 .. 2 * (MACROBLOCKS - LeadBlocks - NumTrees) |-> 0]

\* stream bit n (from 0) of bits, 0 past the end
BitOf(bits, n) == IF n < Len(bits) THEN bits[n + 1] ELSE 0

\* The bytes of the flag stream: bit n is bit 31 - n % 32 of word n \div 32,
\* and the words are stored little-endian.
PackFlags(bits) ==
    [i \in 1 .. 4 * ((Len(bits) + 31) \div 32) |->
        LET w    == (i - 1) \div 4
            j    == (i - 1) % 4
            base == 32 * w + 8 * (3 - j)
        IN  128 * BitOf(bits, base) + 64 * BitOf(bits, base + 1)
              + 32 * BitOf(bits, base + 2) + 16 * BitOf(bits, base + 3)
              + 8 * BitOf(bits, base + 4) + 4 * BitOf(bits, base + 5)
              + 2 * BitOf(bits, base + 6) + BitOf(bits, base + 7)]

\* palette colours and codebook codes of the frames, repeated in this order
FrameColors == <<1, 31744, 65535, 32768, 992, 65520>>

FrameCodes == <<136, 135, 137, 120, 0>>

U16Bytes(v) == <<v % 256, v \div 256>>

Palette(content) ==
    IF content = "zero" THEN U16Bytes(FrameColors[1])
    ELSE [i \in 1 .. 2 * 64 * (MaxDepth + 2) |->
             U16Bytes(FrameColors[(((i - 1) \div 2) % Len(FrameColors)) + 1])[((i - 1) % 2) + 1]]

Payload(content) ==
    IF content = "zero" THEN <<FrameCodes[1]>>
    ELSE [i \in 1 .. 4 * 64 |-> FrameCodes[((i - 1) % Len(FrameCodes)) + 1]]

\* how far a frame_len that claims too much overshoots the data
OverLen == 16

\* how many bytes of a cut record are missing
CutLen == 8

\* The GBM bytes of a scenario sc: sc.offset bytes of an earlier record,
\* then the frame record.  sc.len says how frame_len relates to the data:
\* "exact"; "empty" (frame_len = 4, no streams; zero bytes follow the
\* record); "over" (frame_len claims OverLen more bytes than there are);
\* "cut" (the data ends CutLen bytes before the record does).
FrameData(sc) ==
    LET flags   == IF sc.len = "empty" THEN <<>> ELSE PackFlags(FrameBits(sc.content))
        palette == IF sc.len = "empty" THEN <<>> ELSE Palette(sc.content)
        payload == IF sc.len = "empty" THEN <<>> ELSE Payload(sc.content)
        exact   == 4 + Len(flags) + Len(palette) + Len(payload)
        frame_len == IF sc.len = "over" THEN exact + OverLen ELSE exact
        bit_enc == BitXor(Len(flags), VersionKey(sc.version))
        record  == U16Bytes(frame_len) \o U16Bytes(bit_enc) \o U16Bytes(Len(palette))
                      \o flags \o palette \o payload
        after   == IF sc.len = "empty"
                   THEN [i \in 1 .. Len(PackFlags(FrameBits("zero"))) |-> 0]
                   ELSE <<>>
        all     == [i \in 1 .. sc.offset |-> 238] \o record \o after
    IN  IF sc.len = "cut" THEN SubSeq(all, 1, Len(all) - CutLen) ELSE all

Scenarios ==
    [content : {"zero"}, version : {GBM_VERSION_V130, GBM_VERSION_GEN3, GBM_VERSION_GEN1},
     offset : {0, 4}, ref : {"NULL", "dst", "other"},
     len : {"exact", "empty", "over", "cut"}]
    \cup
    [content : {"trees"}, version : {GBM_VERSION_GEN3}, offset : {0},
     ref : {"dst", "other"}, len : {"exact"}]

Init ==
    /\ \E sc \in Scenarios :
          /\ data = FrameData(sc)
          /\ hdr_version = sc.version
          /\ offset = sc.offset
          /\ refArg = sc.ref
          /\ wild \in IF sc.len = "cut" THEN {0, 255} ELSE {0}
    /\ version = 0
    /\ seed = 0
    /\ dst = NoPixels
    /\ ctx = NoCtx
    /\ frame = NoFrame
    /\ stack = <<>>
    /\ x_block = 0
    /\ y_block = 0
    /\ pc = "open"
    /\ ret = 0
    /\ op = NoOp
    /\ mb = NoMb
    /\ covered = NoPixels
    /\ gbs = NoAudio
    /\ audio_state = NoAudio
    /\ snd = NoAudio
    /\ pack = NoPack

Next ==
    \/ GbmSetVersion
    \/ StartFrame
    \/ MacroblockLoop
    \/ DecodeUnchanged
    \/ DecodeCopy
    \/ DecodeDelta
    \/ DecodeFill
    \/ DecodeSubdivide
    \/ DecodeSecondChild
    \/ DecodeReturn
    \/ FrameReturn

Spec == Init /\ [][Next]_vars


\* the frame has been set up (the locals of gbm_decode_frame are assigned)
Decoding == pc \in {"loop", "block", "done"}

\* C1: for every version byte v in {4, 5, 6} given to gbm_set_version and
\* every bit_enc, gbm_decode_frame derives flag_bytes = bit_enc XOR key(v),
\* with key(6) = 0xD669, key(5) = 0xD6AC, key(4) = 0.
C1_FlagBytesUseVersionKey ==
    Decoding => frame.flag_bytes = BitXor(frame.bit_enc, VersionKey(version))

C3_TruncatedReturnsZero ==
    (pc = "done" /\ offset + 2 + frame.frame_len > Len(data)) =>
        ret = 0 /\ dst = NoPixels

\* every macroblock of the frame reads `00`: the 2 * 600 flag bits are zero
ZeroFlags ==
    \A i \in 0 .. 4 * ((2 * MACROBLOCKS + 31) \div 32) - 1 :
        DataAt(data, wild, offset + 6 + i) = 0

\* C9: while and after decoding a frame whose macroblocks all read `00`, no
\* pixel of dst has been written and no palette or payload byte consumed,
\* whether ref is dst (or NULL) or another buffer; all 600 macroblocks are
\* read as unchanged.
C9_ZeroFrameWritesNothing ==
    (Decoding /\ ZeroFlags) =>
        /\ dst = NoPixels
        /\ ctx.palette_ptr = ctx.flag_end
        /\ ctx.payload_ptr = ctx.palette_end
        /\ op.name \in {"none", "unchanged"}
        /\ pc = "done" => mb.n = MACROBLOCKS

\* an all-`00` frame has been decoded against a separate reference buffer
C9_Witness ==
    /\ pc = "done"
    /\ ZeroFlags
    /\ refArg = "other"
    /\ ctx.ref = "other"
    /\ mb.n = MACROBLOCKS
    /\ dst = NoPixels

MacroblockRect(off) == Rect(off, 8, 8)

\* the macroblock (numbered from 1 in raster order) that pixel p lies in
MacroblockOf(p) ==
    ((p \div FRAME_WIDTH) \div 8) * (FRAME_WIDTH \div 8) + (p % FRAME_WIDTH) \div 8 + 1

\* C10: the macroblocks decoded are the 600 at byte offsets r*3840 + c*16,
\* in raster order; the two children of every subdivision are equal halves
\* that tile their parent; the terminal blocks of a macroblock are pairwise
\* disjoint and together cover it; every write to dst made while decoding
\* a macroblock lies in that macroblock's 8x8 rectangle.
C10_MacroblocksTiled ==
    /\ mb.n \in 0 .. MACROBLOCKS
    /\ mb.n > 0 => mb.off = ((mb.n - 1) \div 30) * 3840 + ((mb.n - 1) % 30) * 16
    /\ pc = "done" => mb.n = 600
    /\ pc = "block" => stack[1].kind = "8x8" /\ stack[1].off = mb.off
    /\ \A i \in 1 .. Len(stack) - 1 :
          LET parent == KindRect(stack[i].kind, stack[i].off)
              first  == KindRect(stack[i + 1].kind, stack[i].off)
              child  == KindRect(stack[i + 1].kind, stack[i + 1].off)
          IN  /\ 2 * Cardinality(child) = Cardinality(parent)
              /\ first \subseteq parent
              /\ stack[i].at = "mid" => child = first
              /\ stack[i].at = "post" => child = parent \ first
    /\ \A p \in DOMAIN covered : covered[p] = 1
    /\ DOMAIN covered \subseteq MacroblockRect(mb.off)
    /\ (pc \in {"loop", "done"} /\ mb.n > 0) => DOMAIN covered = MacroblockRect(mb.off)
    /\ op.writes \subseteq KindRect(op.kind, op.off)
    /\ op.writes \subseteq MacroblockRect(mb.off)
    /\ \A p \in DOMAIN dst : MacroblockOf(p) <= mb.n

\* a macroblock subdivided down to two-pixel blocks, the last of them filled
\* with two colours, has just been completed
C10_Witness ==
    /\ pc = "loop"
    /\ mb.n > LeadBlocks
    /\ op.name = "fill2"
    /\ op.kind = "1x2"
    /\ DOMAIN covered = MacroblockRect(mb.off)
    /\ MacroblockRect(mb.off) \subseteq DOMAIN dst


---------------------------------------------------------------------------
(* Copy and fill of a single block (SpecOps).                              *)

\* C11: after a block of any size is decoded with flag bits `01` and code c
\* from a separate reference buffer, every pixel of dst's block equals the
\* ref pixel displaced by CODEBOOK_OFFSETS[c] from it, and no pixel outside
\* the block was written; for c = 0x88 dst's block equals ref's block.
C11_DisplacedCopy ==
    (op.name = "copy" /\ ctx.ref = "other") =>
        /\ op.ref_off = op.off + CodebookLaw(op.code)
        /\ \A p \in KindRect(op.kind, op.off) :
              /\ p \in DOMAIN dst
              /\ dst[p] = InitPixel("other", seed, p + CodebookLaw(op.code) \div 2)
        /\ op.writes = KindRect(op.kind, op.off)
        /\ op.code = 136 =>
              \A p \in KindRect(op.kind, op.off) : dst[p] = InitPixel("other", seed, p)

\* an 8x8 block has been copied with code 0x88 from a separate reference
C11_Witness ==
    /\ op.name = "copy"
    /\ ctx.ref = "other"
    /\ op.kind = "8x8"
    /\ op.code = 136
    /\ Cardinality(DOMAIN dst) = 64
    /\ dst[op.off \div 2] = InitPixel("other", seed, op.off \div 2)

\* C12: a step that decodes a block larger than two pixels with flag bits
\* `11` then `1` reads exactly one palette colour and no payload byte, sets
\* every pixel of the block to that colour and changes no other pixel.
C12_FillSetsBlock ==
    [][(/\ pc = "block"
        /\ Top.at = "entry"
        /\ ~TwoPixel(Top.kind)
        /\ Sel.ret = 3
        /\ next_bit(data, wild, Sel.ctx).ret = 1)
       => LET block == KindRect(Top.kind, ctx.block_offset)
              color == read_u16_unaligned(data, wild, ctx.palette_ptr)
          IN  /\ ctx'.palette_ptr = ctx.palette_ptr + 2
              /\ ctx'.payload_ptr = ctx.payload_ptr
              /\ Cardinality(block) = PixW(Top.kind) * PixH(Top.kind)
              /\ \A p \in block : p \in DOMAIN dst' /\ dst'[p] = color
              /\ \A p \in DOMAIN dst' \ block : p \in DOMAIN dst /\ dst'[p] = dst[p]]_vars

\* an 8x8 macroblock has been filled: 64 pixels of the colour 0x7C00
C12_Witness ==
    /\ op.name = "fill"
    /\ op.kind = "8x8"
    /\ op.color = 31744
    /\ Cardinality(op.writes) = 64
    /\ \A p \in KindRect("8x8", op.off) : p \in DOMAIN dst /\ dst[p] = 31744

---------------------------------------------------------------------------
(* The GBS audio decoder (source/gbs_audio.c).                             *)
(*                                                                         *)
(* SpecAudio runs gbs_audio_init on a GBS file and then the playback       *)
(* calls: gbs_audio_start, the timer-1 interrupt handler, gbs_audio_       *)
(* restart and gbs_audio_seek_minute.  decode_buffer takes one step per    *)
(* iteration of its sample loop.                                           *)
(*                                                                         *)
(* The tables are sequences, so table[i] of the source is table[i + 1].    *)

GBS_HEADER_SIZE == 512

\* A buffer size that is no multiple of 8, to show that the empty carry at
\* the return of decode_buffer depends on the size.
AUDIO_BUFFER_SAMPLES_short == 1024 - 4

AUDIO_BUFFER_SAMPLES == 1024
GBS_MODE_INVALID == 255

ima_step_table == <<
        7,     8,     9,    10,    11,    12,    13,    14,    16,    17,
       19,    21,    23,    25,    28,    31,    34,    37,    41,    45,
       50,    55,    60,    66,    73,    80,    88,    97,   107,   118,
      130,   143,   157,   173,   190,   209,   230,   253,   279,   307,
      337,   371,   408,   449,   494,   544,   598,   658,   724,   796,
      876,   963,  1060,  1166,  1282,  1411,  1552,  1707,  1878,  2066,
     2272,  2499,  2749,  3024,  3327,  3660,  4026,  4428,  4871,  5358,
     5894,  6484,  7132,  7845,  8630,  9493, 10442, 11487, 12635, 13899,
    15289, 16818, 18500, 20350, 22385, 24623, 27086, 29794, 32767 >>

ima_index_table == << -1, -1, -1, -1, 2, 4, 6, 8, -1, -1, -1, -1, 2, 4, 6, 8 >>

adpcm3_index_table == << -1, -1, 2, 6, -1, -1, 2, 6 >>

ima_diff_table == <<
         0,      1,      3,      4,      7,      8,     10,     11,      0,     -1,     -3,     -4,     -7,     -8,    -10,    -11,
         1,      2,      4,      5,      8,      9,     11,     12,     -1,     -2,     -4,     -5,     -8,     -9,    -11,    -12,
         1,      2,      4,      5,      9,     10,     12,     13,     -1,     -2,     -4,     -5,     -9,    -10,    -12,    -13,
         1,      2,      5,      6,     10,     11,     14,     15,     -1,     -2,     -5,     -6,    -10,    -11,    -14,    -15,
         1,      3,      5,      7,     11,     13,     15,     17,     -1,     -3,     -5,     -7,    -11,    -13,    -15,    -17,
         1,      3,      6,      8,     12,     14,     17,     19,     -1,     -3,     -6,     -8,    -12,    -14,    -17,    -19,
         1,      3,      6,      8,     13,     15,     18,     20,     -1,     -3,     -6,     -8,    -13,    -15,    -18,    -20,
         1,      4,      7,      9,     14,     17,     20,     22,     -1,     -4,     -7,     -9,    -14,    -17,    -20,    -22,
         2,      4,      8,     10,     16,     18,     22,     24,     -2,     -4,     -8,    -10,    -16,    -18,    -22,    -24,
         2,      4,      8,     10,     17,     19,     23,     25,     -2,     -4,     -8,    -10,    -17,    -19,    -23,    -25,
         2,      5,      9,     12,     19,     22,     26,     29,     -2,     -5,     -9,    -12,    -19,    -22,    -26,    -29,
         2,      5,     10,     13,     21,     24,     29,     32,     -2,     -5,    -10,    -13,    -21,    -24,    -29,    -32,
         2,      6,     11,     14,     23,     27,     32,     35,     -2,     -6,    -11,    -14,    -23,    -27,    -32,    -35,
         3,      6,     12,     15,     25,     28,     34,     37,     -3,     -6,    -12,    -15,    -25,    -28,    -34,    -37,
         3,      7,     14,     17,     28,     32,     39,     42,     -3,     -7,    -14,    -17,    -28,    -32,    -39,    -42,
         3,      8,     15,     19,     31,     36,     43,     47,     -3,     -8,    -15,    -19,    -31,    -36,    -43,    -47,
         4,      8,     17,     21,     34,     38,     47,     51,     -4,     -8,    -17,    -21,    -34,    -38,    -47,    -51,
         4,      9,     18,     23,     37,     42,     51,     56,     -4,     -9,    -18,    -23,    -37,    -42,    -51,    -56,
         5,     10,     20,     25,     41,     46,     56,     61,     -5,    -10,    -20,    -25,    -41,    -46,    -56,    -61,
         5,     11,     22,     28,     45,     51,     62,     68,     -5,    -11,    -22,    -28,    -45,    -51,    -62,    -68,
         6,     12,     25,     31,     50,     56,     69,     75,     -6,    -12,    -25,    -31,    -50,    -56,    -69,    -75,
         6,     14,     27,     34,     55,     62,     76,     83,     -6,    -14,    -27,    -34,    -55,    -62,    -76,    -83,
         7,     15,     30,     37,     60,     67,     82,     90,     -7,    -15,    -30,    -37,    -60,    -67,    -82,    -90,
         8,     16,     33,     41,     66,     74,     91,     99,     -8,    -16,    -33,    -41,    -66,    -74,    -91,    -99,
         9,     18,     36,     45,     73,     82,    100,    109,     -9,    -18,    -36,    -45,    -73,    -82,   -100,   -109,
        10,     20,     40,     50,     80,     90,    110,    120,    -10,    -20,    -40,    -50,    -80,    -90,   -110,   -120,
        11,     22,     44,     55,     88,     99,    121,    132,    -11,    -22,    -44,    -55,    -88,    -99,   -121,   -132,
        12,     24,     48,     60,     97,    109,    133,    145,    -12,    -24,    -48,    -60,    -97,   -109,   -133,   -145,
        13,     27,     53,     67,    107,    121,    147,    161,    -13,    -27,    -53,    -67,   -107,   -121,   -147,   -161,
        14,     29,     59,     73,    118,    132,    162,    177,    -14,    -29,    -59,    -73,   -118,   -132,   -162,   -177,
        16,     32,     65,     81,    130,    146,    179,    195,    -16,    -32,    -65,    -81,   -130,   -146,   -179,   -195,
        17,     36,     71,     89,    143,    161,    196,    214,    -17,    -36,    -71,    -89,   -143,   -161,   -196,   -214,
        19,     39,     78,     98,    157,    176,    216,    235,    -19,    -39,    -78,    -98,   -157,   -176,   -216,   -235,
        21,     43,     86,    108,    173,    195,    238,    260,    -21,    -43,    -86,   -108,   -173,   -195,   -238,   -260,
        23,     48,     95,    119,    190,    214,    261,    285,    -23,    -48,    -95,   -119,   -190,   -214,   -261,   -285,
        26,     52,    104,    130,    209,    235,    287,    313,    -26,    -52,   -104,   -130,   -209,   -235,   -287,   -313,
        28,     58,    115,    144,    230,    259,    316,    345,    -28,    -58,   -115,   -144,   -230,   -259,   -316,   -345,
        31,     63,    126,    158,    253,    285,    348,    380,    -31,    -63,   -126,   -158,   -253,   -285,   -348,   -380,
        34,     70,    139,    174,    279,    314,    383,    418,    -34,    -70,   -139,   -174,   -279,   -314,   -383,   -418,
        38,     77,    153,    191,    307,    345,    421,    460,    -38,    -77,   -153,   -191,   -307,   -345,   -421,   -460,
        42,     84,    168,    210,    337,    379,    463,    505,    -42,    -84,   -168,   -210,   -337,   -379,   -463,   -505,
        46,     93,    185,    232,    371,    418,    510,    557,    -46,    -93,   -185,   -232,   -371,   -418,   -510,   -557,
        51,    102,    204,    255,    408,    459,    561,    612,    -51,   -102,   -204,   -255,   -408,   -459,   -561,   -612,
        56,    112,    224,    280,    449,    505,    617,    673,    -56,   -112,   -224,   -280,   -449,   -505,   -617,   -673,
        61,    124,    247,    309,    494,    556,    679,    741,    -61,   -124,   -247,   -309,   -494,   -556,   -679,   -741,
        68,    136,    272,    340,    544,    612,    748,    816,    -68,   -136,   -272,   -340,   -544,   -612,   -748,   -816,
        74,    150,    299,    374,    598,    673,    822,    897,    -74,   -150,   -299,   -374,   -598,   -673,   -822,   -897,
        82,    164,    329,    411,    658,    740,    905,    987,    -82,   -164,   -329,   -411,   -658,   -740,   -905,   -987,
        90,    181,    362,    452,    724,    814,    996,   1086,    -90,   -181,   -362,   -452,   -724,   -814,   -996,  -1086,
        99,    199,    398,    497,    796,    895,   1094,   1194,    -99,   -199,   -398,   -497,   -796,   -895,  -1094,  -1194,
       109,    219,    438,    547,    876,    985,   1204,   1314,   -109,   -219,   -438,   -547,   -876,   -985,  -1204,  -1314,
       120,    240,    481,    601,    963,   1083,   1324,   1444,   -120,   -240,   -481,   -601,   -963,  -1083,  -1324,  -1444,
       132,    265,    530,    662,   1060,   1192,   1457,   1590,   -132,   -265,   -530,   -662,  -1060,  -1192,  -1457,  -1590,
       145,    291,    583,    728,   1166,   1311,   1603,   1749,   -145,   -291,   -583,   -728,  -1166,  -1311,  -1603,  -1749,
       160,    320,    641,    801,   1282,   1442,   1763,   1923,   -160,   -320,   -641,   -801,  -1282,  -1442,  -1763,  -1923,
       176,    352,    705,    881,   1411,   1587,   1940,   2116,   -176,   -352,   -705,   -881,  -1411,  -1587,  -1940,  -2116,
       194,    388,    776,    970,   1552,   1746,   2134,   2328,   -194,   -388,   -776,   -970,  -1552,  -1746,  -2134,  -2328,
       213,    427,    853,   1067,   1707,   1920,   2346,   2560,   -213,   -427,   -853,  -1067,  -1707,  -1920,  -2346,  -2560,
       234,    469,    939,   1173,   1878,   2112,   2583,   2817,   -234,   -469,   -939,  -1173,  -1878,  -2112,  -2583,  -2817,
       258,    516,   1033,   1291,   2066,   2324,   2841,   3099,   -258,   -516,  -1033,  -1291,  -2066,  -2324,  -2841,  -3099,
       284,    568,   1136,   1420,   2272,   2556,   3124,   3408,   -284,   -568,  -1136,  -1420,  -2272,  -2556,  -3124,  -3408,
       312,    625,   1249,   1562,   2499,   2811,   3436,   3748,   -312,   -625,  -1249,  -1562,  -2499,  -2811,  -3436,  -3748,
       343,    687,   1374,   1718,   2749,   3093,   3780,   4123,   -343,   -687,  -1374,  -1718,  -2749,  -3093,  -3780,  -4123,
       378,    756,   1512,   1890,   3024,   3402,   4158,   4536,   -378,   -756,  -1512,  -1890,  -3024,  -3402,  -4158,  -4536,
       415,    832,   1663,   2079,   3327,   3743,   4575,   4990,   -415,   -832,  -1663,  -2079,  -3327,  -3743,  -4575,  -4990,
       457,    915,   1830,   2287,   3660,   4117,   5032,   5490,   -457,   -915,  -1830,  -2287,  -3660,  -4117,  -5032,  -5490,
       503,   1006,   2013,   2516,   4026,   4529,   5536,   6039,   -503,  -1006,  -2013,  -2516,  -4026,  -4529,  -5536,  -6039,
       553,   1107,   2214,   2767,   4428,   4981,   5535,   6642,   -553,  -1107,  -2214,  -2767,  -4428,  -4981,  -5535,  -6642,
       608,   1218,   2435,   3044,   4871,   5480,   6088,   7306,   -608,  -1218,  -2435,  -3044,  -4871,  -5480,  -6088,  -7306,
       669,   1339,   2679,   3348,   5358,   6027,   6697,   8037,   -669,  -1339,  -2679,  -3348,  -5358,  -6027,  -6697,  -8037,
       736,   1474,   2947,   3683,   5894,   6631,   7367,   8841,   -736,  -1474,  -2947,  -3683,  -5894,  -6631,  -7367,  -8841,
       810,   1621,   3242,   4052,   6484,   7294,   8105,   9726,   -810,  -1621,  -3242,  -4052,  -6484,  -7294,  -8105,  -9726,
       891,   1783,   3566,   4457,   7132,   8023,   8915,  10698,   -891,  -1783,  -3566,  -4457,  -7132,  -8023,  -8915, -10698,
       980,   1961,   3922,   4903,   7845,   8826,   9807,  11767,   -980,  -1961,  -3922,  -4903,  -7845,  -8826,  -9807, -11767,
      1078,   2158,   4315,   5394,   8630,   9709,  10787,  12945,  -1078,  -2158,  -4315,  -5394,  -8630,  -9709, -10787, -12945,
      1186,   2373,   4746,   5933,   9493,  10680,  11866,  14239,  -1186,  -2373,  -4746,  -5933,  -9493, -10680, -11866, -14239,
      1305,   2610,   5221,   6526,  10442,  11747,  13052,  15663,  -1305,  -2610,  -5221,  -6526, -10442, -11747, -13052, -15663,
      1435,   2872,   5743,   7179,  11487,  12922,  14358,  17230,  -1435,  -2872,  -5743,  -7179, -11487, -12922, -14358, -17230,
      1579,   3159,   6317,   7896,  12635,  14214,  15793,  18952,  -1579,  -3159,  -6317,  -7896, -12635, -14214, -15793, -18952,
      1737,   3475,   6949,   8686,  13899,  15636,  17373,  20848,  -1737,  -3475,  -6949,  -8686, -13899, -15636, -17373, -20848,
      1911,   3822,   7644,   9555,  15289,  17200,  19111,  22933,  -1911,  -3822,  -7644,  -9555, -15289, -17200, -19111, -22933,
      2102,   4204,   8409,  10511,  16818,  18920,  21022,  25227,  -2102,  -4204,  -8409, -10511, -16818, -18920, -21022, -25227,
      2312,   4625,   9250,  11562,  18500,  20812,  23124,  27750,  -2312,  -4625,  -9250, -11562, -18500, -20812, -23124, -27750,
      2543,   5087,  10175,  12718,  20350,  22893,  25437,  30525,  -2543,  -5087, -10175, -12718, -20350, -22893, -25437, -30525,
      2798,   5596,  11192,  13990,  22385,  25183,  27981,  32767,  -2798,  -5596, -11192, -13990, -22385, -25183, -27981, -32767,
      3077,   6156,  12311,  15389,  24623,  27701,  30778,  32767,  -3077,  -6156, -12311, -15389, -24623, -27701, -30778, -32767,
      3385,   6771,  13543,  16928,  27086,  30471,  32767,  32767,  -3385,  -6771, -13543, -16928, -27086, -30471, -32767, -32767,
      3724,   7449,  14897,  18621,  29794,  32767,  32767,  32767,  -3724,  -7449, -14897, -18621, -29794, -32767, -32767, -32767,
      4095,   8191,  16383,  20479,  32767,  32767,  32767,  32767,  -4095,  -8191, -16383, -20479, -32767, -32767, -32767, -32767 >>

\* declared with 356 entries and 352 initialisers: the last four are zero
adpcm2_delta_table == <<
         3,     10,     -3,    -10,      4,     12,     -4,    -12,
         4,     13,     -4,    -13,      5,     15,     -5,    -15,
         5,     16,     -5,    -16,      6,     18,     -6,    -18,
         6,     19,     -6,    -19,      7,     21,     -7,    -21,
         8,     24,     -8,    -24,      8,     25,     -8,    -25,
         9,     28,     -9,    -28,     10,     31,    -10,    -31,
        11,     34,    -11,    -34,     12,     37,    -12,    -37,
        14,     42,    -14,    -42,     15,     46,    -15,    -46,
        17,     51,    -17,    -51,     18,     55,    -18,    -55,
        20,     61,    -20,    -61,     22,     67,    -22,    -67,
        25,     75,    -25,    -75,     27,     82,    -27,    -82,
        30,     90,    -30,    -90,     33,     99,    -33,    -99,
        36,    109,    -36,   -109,     40,    120,    -40,   -120,
        44,    132,    -44,   -132,     48,    145,    -48,   -145,
        53,    160,    -53,   -160,     59,    177,    -59,   -177,
        65,    195,    -65,   -195,     71,    214,    -71,   -214,
        78,    235,    -78,   -235,     86,    259,    -86,   -259,
        95,    285,    -95,   -285,    104,    313,   -104,   -313,
       115,    345,   -115,   -345,    126,    379,   -126,   -379,
       139,    418,   -139,   -418,    153,    460,   -153,   -460,
       168,    505,   -168,   -505,    185,    556,   -185,   -556,
       204,    612,   -204,   -612,    224,    673,   -224,   -673,
       247,    741,   -247,   -741,    272,    816,   -272,   -816,
       299,    897,   -299,   -897,    329,    987,   -329,   -987,
       362,   1086,   -362,  -1086,    398,   1194,   -398,  -1194,
       438,   1314,   -438,  -1314,    481,   1444,   -481,  -1444,
       530,   1590,   -530,  -1590,    583,   1749,   -583,  -1749,
       641,   1923,   -641,  -1923,    705,   2116,   -705,  -2116,
       776,   2328,   -776,  -2328,    853,   2560,   -853,  -2560,
       939,   2817,   -939,  -2817,   1033,   3099,  -1033,  -3099,
      1136,   3408,  -1136,  -3408,   1249,   3748,  -1249,  -3748,
      1374,   4123,  -1374,  -4123,   1512,   4536,  -1512,  -4536,
      1663,   4990,  -1663,  -4990,   1830,   5490,  -1830,  -5490,
      2013,   6039,  -2013,  -6039,   2214,   6642,  -2214,  -6642,
      2435,   7306,  -2435,  -7306,   2679,   8037,  -2679,  -8037,
      2947,   8841,  -2947,  -8841,   3242,   9726,  -3242,  -9726,
      3566,  10698,  -3566, -10698,   3922,  11767,  -3922, -11767,
      4315,  12945,  -4315, -12945,   4746,  14239,  -4746, -14239,
      5221,  15663,  -5221, -15663,   5743,  17230,  -5743, -17230,
      6317,  18952,  -6317, -18952,   6949,  20848,  -6949, -20848,
      7644,  22933,  -7644, -22933,   8409,  25227,  -8409, -25227,
      9250,  27750,  -9250, -27750,  10175,  30525, -10175, -30525,
     11179, -31999, -11179,  31999,  12316, -28587, -12316,  28587,
     13543, -24907, -13543,  24907,  14897, -20845, -14897,  20845 >>
    \o << 0, 0, 0, 0 >>

---------------------------------------------------------------------------
(* The ADPCM kernels.  A channel is [predictor, step_index]; each kernel   *)
(* returns [ch, ret]: the channel after the call and the int16_t sample    *)
(* returned.                                                               *)

Clamp(v, lo, hi) == IF v < lo THEN lo ELSE IF v > hi THEN hi ELSE v

Bit(code, b) == (code \div (2 ^ b)) % 2 = 1

decode_ima_4bit_unclamped(nibble, ch) ==
    LET diff == ima_diff_table[ch.step_index * 16 + nibble + 1]
        p    == ch.predictor + diff
        s    == Clamp(ch.step_index + ima_index_table[nibble + 1], 0, 88)
    IN  [ch |-> [predictor |-> p, step_index |-> s],
         ret |-> to_signed16(p % U16)]

decode_ima_4bit(nibble, ch) ==
    LET diff == ima_diff_table[ch.step_index * 16 + nibble + 1]
        p    == Clamp(ch.predictor + diff, -32768, 32767)
        s    == Clamp(ch.step_index + ima_index_table[nibble + 1], 0, 88)
    IN  [ch |-> [predictor |-> p, step_index |-> s],
         ret |-> to_signed16(p % U16)]

decode_adpcm_3bit(code, ch) ==
    LET step == ima_step_table[ch.step_index + 1]
        diff == step \div 4 + (IF Bit(code, 1) THEN step ELSE 0)
                            + (IF Bit(code, 0) THEN step \div 2 ELSE 0)
        p    == Clamp(IF Bit(code, 2) THEN ch.predictor - diff
                                      ELSE ch.predictor + diff, 0, 65535)
        s    == Clamp(ch.step_index + adpcm3_index_table[(code % 8) + 1], 0, 88)
    IN  [ch |-> [predictor |-> p, step_index |-> s],
         ret |-> to_signed16((p - 32768) % U16)]

decode_adpcm_2bit_uncapped(code, ch) ==
    LET table_index == IF code + ch.step_index > 352 THEN 352
                       ELSE code + ch.step_index
        delta == adpcm2_delta_table[table_index + 1]
        p     == Clamp(ch.predictor + delta, 0, 65535)
        s     == IF Bit(code, 0) THEN ch.step_index + 4
                 ELSE IF ch.step_index - 4 < 0 THEN 0 ELSE ch.step_index - 4
    IN  [ch |-> [predictor |-> p, step_index |-> s],
         ret |-> to_signed16((p - 32768) % U16)]

decode_adpcm_2bit_still(code, ch) ==
    LET table_index == IF code + ch.step_index > 352 THEN 352
                       ELSE code + ch.step_index
        delta == IF code = 0 THEN 0 ELSE adpcm2_delta_table[table_index + 1]
        p     == Clamp(ch.predictor + delta, 0, 65535)
        s     == IF Bit(code, 0)
                 THEN (IF ch.step_index + 4 > 352 THEN 352 ELSE ch.step_index + 4)
                 ELSE (IF ch.step_index - 4 < 0 THEN 0 ELSE ch.step_index - 4)
    IN  [ch |-> [predictor |-> p, step_index |-> s],
         ret |-> to_signed16((p - 32768) % U16)]

decode_adpcm_2bit(code, ch) ==
    LET table_index == IF code + ch.step_index > 352 THEN 352
                       ELSE code + ch.step_index
        delta == adpcm2_delta_table[table_index + 1]
        p     == Clamp(ch.predictor + delta, 0, 65535)
        s     == IF Bit(code, 0)
                 THEN (IF ch.step_index + 4 > 352 THEN 352 ELSE ch.step_index + 4)
                 ELSE (IF ch.step_index - 4 < 0 THEN 0 ELSE ch.step_index - 4)
    IN  [ch |-> [predictor |-> p, step_index |-> s],
         ret |-> to_signed16((p - 32768) % U16)]

\* (int8_t)(sample >> 8)
to_signed8(v) == IF v >= 128 THEN v - 256 ELSE v
Sample8(sample) == to_signed8((sample \div 256) % 256)

---------------------------------------------------------------------------
(* The GBS file.  gbs is [size, head, hdr, pat, wild]: the file length,    *)
(* the first 20 bytes of its 512-byte header (magic, file_size, marker,    *)
(* reserved1, mode; the padding is zero), the kind of block headers and    *)
(* of block data it holds, and the byte found beyond its end.              *)

MAGIC == <<71, 66, 65, 76>>       \* "GBAL"
MARKER == <<77, 85, 83, 73>>      \* "MUSI"

\* sample_rate, channels, block_size, block_header_size of each mode
ModeRow(mode) ==
    CASE mode = 0 -> [sample_rate |-> 22050, channels |-> 2, block_size |-> 1024, block_header_size |-> 8]
      [] mode = 1 -> [sample_rate |-> 11025, channels |-> 1, block_size |-> 1024, block_header_size |-> 4]
      [] mode = 2 -> [sample_rate |-> 22050, channels |-> 1, block_size |-> 512, block_header_size |-> 4]
      [] mode = 3 -> [sample_rate |-> 22050, channels |-> 1, block_size |-> 512, block_header_size |-> 4]
      [] mode = 4 -> [sample_rate |-> 11025, channels |-> 1, block_size |-> 256, block_header_size |-> 4]

\* samples_per_block of each mode
SamplesPerBlock(mode, data_per_block) ==
    CASE mode = 0 -> data_per_block
      [] mode = 1 -> (data_per_block \div 3) * 8
      [] mode = 2 -> data_per_block * 2
      [] mode \in {3, 4} -> data_per_block * 4

HeaderKinds == {"top", "wide", "mid", "centre"}
Patterns == {"sevens", "ones", "mixed", "zeros"}

\* the header words [pred, step] of channel chan (0 left, 1 right) of block b
HeaderWords(hdr, b, chan) ==
    CASE hdr = "top"  -> [pred |-> 65535, step |-> 88]
      [] hdr = "wide" ->
            IF (b + chan) % 2 = 0
            THEN (IF chan = 0 THEN [pred |-> 0, step |-> 65535]
                              ELSE [pred |-> 65535, step |-> 0])
            ELSE (IF chan = 0 THEN [pred |-> 32767, step |-> 353]
                              ELSE [pred |-> 32768, step |-> 89])
      [] hdr = "mid"  ->
            [pred |-> (32768 + 257 * b - chan) % U16,
             step |-> 44 + 300 * (b % 2) + chan]
      [] hdr = "centre" -> [pred |-> 32768, step |-> 0]

PatternByte(pat, b, w) ==
    CASE pat = "sevens" -> 119
      [] pat = "ones"   -> 255
      [] pat = "mixed"  -> (89 * w + 31 * b + 7) % 256
      [] pat = "zeros"  -> 0

GbsMode_low_byte(g) == W32(0, g.head[17])

\* header->mode
GbsMode(g) == read_u32_unaligned(g.head, 0, 16)

\* the byte at file offset p
GbsByte(g, p) ==
    IF p < 0 \/ p >= g.size THEN g.wild
    ELSE IF p < Len(g.head) THEN g.head[p + 1]
    ELSE IF p < GBS_HEADER_SIZE THEN 0
    ELSE LET row == ModeRow(GbsMode(g).lo)
             b   == (p - GBS_HEADER_SIZE) \div row.block_size
             w   == (p - GBS_HEADER_SIZE) % row.block_size
             hw  == HeaderWords(g.hdr, b, w \div 4)
             v   == IF (w \div 2) % 2 = 0 THEN hw.pred ELSE hw.step
         IN  IF w < row.block_header_size
             THEN (IF w % 2 = 0 THEN v % 256 ELSE v \div 256)
             ELSE PatternByte(g.pat, b, w)

GbsU16(g, p) == GbsByte(g, p) + 256 * GbsByte(g, p + 1)

---------------------------------------------------------------------------
(* The decoder state and the block cursor.  Pointers into the file are     *)
(* file offsets (gbs_data is offset 0).                                    *)

NoChannel == [predictor |-> 0, step_index |-> 0]

\* memset(&state, 0, sizeof(state))
ZeroState ==
    [gbs_size |-> 0,
     info |-> [mode |-> 0, sample_rate |-> 0, channels |-> 0, block_size |-> 0,
               total_blocks |-> 0, total_samples |-> 0, samples_decoded |-> 0,
               is_playing |-> FALSE, is_finished |-> FALSE],
     left |-> NoChannel, right |-> NoChannel,
     current_block_ptr |-> 0, block_index |-> 0, byte_in_block |-> 0,
     block_header_size |-> 0,
     buffered_samples |-> <<0, 0, 0, 0, 0, 0, 0, 0>>, samples_buffered |-> 0,
     high_nibble_sample |-> 0, have_high_nibble |-> FALSE,
     active_buffer |-> 0, is_paused |-> FALSE,
     samples_per_minute |-> 0, next_minute_sample |-> 0,
     current_audio_minute |-> 0, sync_minute |-> 0]

parse_block_header_mono(g, mode, block) ==
    LET predictor == GbsU16(g, block)
        step_idx  == GbsU16(g, block + 2)
    IN  [predictor  |-> IF mode = 2 THEN to_signed16((predictor - 32768) % U16)
                        ELSE predictor,
         step_index |-> IF mode \in {3, 4}
                        THEN (IF step_idx > 352 THEN 352 ELSE step_idx)
                        ELSE (IF step_idx > 88 THEN 88 ELSE step_idx)]

parse_block_header_stereo(g, block) ==
    LET pred_l == GbsU16(g, block)
        step_l == GbsU16(g, block + 2)
        pred_r == GbsU16(g, block + 4)
        step_r == GbsU16(g, block + 6)
    IN  [left  |-> [predictor  |-> to_signed16((pred_l - 32768) % U16),
                    step_index |-> IF step_l > 88 THEN 88 ELSE step_l],
         right |-> [predictor  |-> to_signed16((pred_r - 32768) % U16),
                    step_index |-> IF step_r > 88 THEN 88 ELSE step_r]]

\* the header of the block at current_block_ptr parsed into the channel(s)
ParseCurrentBlock(g, st) ==
    IF st.info.channels = 2
    THEN Only({ [st EXCEPT !.left = h.left, !.right = h.right] :
                  h \in {parse_block_header_stereo(g, st.current_block_ptr)} })
    ELSE [st EXCEPT !.left = parse_block_header_mono(g, st.info.mode,
                                                     st.current_block_ptr)]

advance_to_next_block_keep(g, st) ==
    LET s1 == [st EXCEPT !.block_index = @ + 1,
                         !.byte_in_block = 0,
                         !.current_block_ptr = @ + st.info.block_size]
    IN  IF s1.block_index >= s1.info.total_blocks
        THEN [s1 EXCEPT !.info.is_finished = TRUE]
        ELSE s1

advance_to_next_block(g, st) ==
    LET s1 == [st EXCEPT !.block_index = @ + 1,
                         !.byte_in_block = 0,
                         !.current_block_ptr = @ + st.info.block_size]
    IN  IF s1.block_index >= s1.info.total_blocks
        THEN [s1 EXCEPT !.info.is_finished = TRUE]
        ELSE ParseCurrentBlock(g, s1)

gbs_audio_init(g) ==
    LET s0   == [ZeroState EXCEPT !.gbs_size = g.size,
                                  !.info.mode = GBS_MODE_INVALID]
        mode == GbsMode(g)
    IN  IF g.size < GBS_HEADER_SIZE THEN [st |-> s0, ret |-> FALSE]
        ELSE IF SubSeq(g.head, 1, 4) # MAGIC \/ SubSeq(g.head, 9, 12) # MARKER
        THEN [st |-> s0, ret |-> FALSE]
        ELSE IF mode.hi # 0 \/ mode.lo > 4 THEN [st |-> s0, ret |-> FALSE]
        ELSE
        LET row == ModeRow(mode.lo)
            data_size == g.size - GBS_HEADER_SIZE
            total_blocks == data_size \div row.block_size
            data_per_block == row.block_size - row.block_header_size
            samples_per_block == SamplesPerBlock(mode.lo, data_per_block)
            s1 == [s0 EXCEPT !.info.mode = mode.lo,
                             !.info.sample_rate = row.sample_rate,
                             !.info.channels = row.channels,
                             !.info.block_size = row.block_size,
                             !.block_header_size = row.block_header_size,
                             !.info.total_blocks = total_blocks,
                             !.info.total_samples = total_blocks * samples_per_block,
                             !.current_block_ptr = GBS_HEADER_SIZE]
            s2 == IF total_blocks > 0 THEN ParseCurrentBlock(g, s1) ELSE s1
        IN  [st |-> [s2 EXCEPT !.info.is_finished = (total_blocks = 0),
                               !.samples_per_minute = row.sample_rate * 60,
                               !.next_minute_sample = row.sample_rate * 60,
                               !.current_audio_minute = 0,
                               !.sync_minute = -1],
             ret |-> TRUE]

---------------------------------------------------------------------------
(* One iteration of the sample loop of decode_buffer_*.  loc is the        *)
(* locals [byte_pos, decoded]; the result is [st, byte_pos, decoded, l, r, *)
(* used, crossed]: the state and the locals after the iteration, the       *)
(* bytes written to left[i] and right[i], the channel state the kernels    *)
(* started from when the iteration unpacked input (else NoUse), and the    *)
(* byte_pos at which the iteration left a block (else -1).                 *)

NoUse == [block |-> -1, byte |-> -1, left |-> NoChannel, right |-> NoChannel]

Use(st, byte_pos) ==
    [block |-> st.block_index, byte |-> byte_pos, left |-> st.left, right |-> st.right]

Silent(st, loc, crossed) ==
    [st |-> st, byte_pos |-> loc.byte_pos, decoded |-> loc.decoded,
     l |-> 0, r |-> 0, used |-> NoUse, crossed |-> crossed]

\* the kernel of each mono mode
Kernel(mode, code, ch) ==
    CASE mode = 1 -> decode_adpcm_3bit(code, ch)
      [] mode = 2 -> decode_ima_4bit(code, ch)
      [] mode \in {3, 4} -> decode_adpcm_2bit(code, ch)

\* the kernel run over a sequence of codes: [ch, samples]
RECURSIVE Unpack(_, _, _, _)
Unpack(mode, codes, ch, acc) ==
    IF codes = <<>> THEN [ch |-> ch, samples |-> acc]
    ELSE Only({ Unpack(mode, Tail(codes), k.ch, Append(acc, k.ret)) :
                k \in {Kernel(mode, Head(codes), ch)} })

\* the block check at the top of an unpacking iteration: the state and
\* byte_pos to unpack from, or finished
NeedBlock(g, st, loc, need) ==
    LET data_per_block == st.info.block_size - st.block_header_size
    IN  IF loc.byte_pos + need > data_per_block
        THEN Only({ [st |-> s1,
                     byte_pos |-> IF s1.info.is_finished THEN loc.byte_pos ELSE 0,
                     crossed |-> loc.byte_pos] :
                    s1 \in {advance_to_next_block(
                                g, [st EXCEPT !.byte_in_block = loc.byte_pos])} })
        ELSE [st |-> st, byte_pos |-> loc.byte_pos, crossed |-> -1]

DataByte(g, st, byte_pos) ==
    GbsByte(g, st.current_block_ptr + st.block_header_size + byte_pos)

decode_buffer_stereo_4bit(g, st, loc) ==
    IF st.info.is_finished THEN Silent(st, loc, -1)
    ELSE Only({
           IF nb.st.info.is_finished THEN Silent(nb.st, loc, nb.crossed)
           ELSE Only({ [st |-> [nb.st EXCEPT !.left = sl.ch, !.right = sr.ch],
                        byte_pos |-> nb.byte_pos + 1,
                        decoded |-> loc.decoded + 1,
                        l |-> Sample8(sl.ret), r |-> Sample8(sr.ret),
                        used |-> Use(nb.st, nb.byte_pos), crossed |-> nb.crossed] :
                       sl \in {decode_ima_4bit(DataByte(g, nb.st, nb.byte_pos) % 16,
                                               nb.st.left)},
                       sr \in {decode_ima_4bit(DataByte(g, nb.st, nb.byte_pos) \div 16,
                                               nb.st.right)} })
           : nb \in {NeedBlock(g, st, loc, 1)} })

decode_buffer_mono_3bit(g, st, loc) ==
    IF st.info.is_finished THEN Silent(st, loc, -1)
    ELSE IF st.samples_buffered > 0
    THEN [st |-> [st EXCEPT !.samples_buffered = @ - 1],
          byte_pos |-> loc.byte_pos, decoded |-> loc.decoded + 1,
          l |-> Sample8(st.buffered_samples[8 - st.samples_buffered + 1]),
          r |-> 0, used |-> NoUse, crossed |-> -1]
    ELSE Only({
           IF nb.st.info.is_finished THEN Silent(nb.st, loc, nb.crossed)
           ELSE Only({ [st |-> [nb.st EXCEPT !.left = u.ch,
                                             !.buffered_samples = u.samples,
                                             !.samples_buffered = 7],
                        byte_pos |-> nb.byte_pos + 3,
                        decoded |-> loc.decoded + 1,
                        l |-> Sample8(u.samples[1]), r |-> 0,
                        used |-> Use(nb.st, nb.byte_pos), crossed |-> nb.crossed] :
                       u \in { Unpack(1, [k \in 1 .. 8 |->
                                             (packed \div (8 ^ (k - 1))) % 8],
                                      nb.st.left, <<>>) :
                                 packed \in {DataByte(g, nb.st, nb.byte_pos)
                                     + 256 * DataByte(g, nb.st, nb.byte_pos + 1)
                                     + 65536 * DataByte(g, nb.st, nb.byte_pos + 2)} } })
           : nb \in {NeedBlock(g, st, loc, 3)} })

decode_buffer_mono_4bit(g, st, loc) ==
    IF st.info.is_finished THEN Silent(st, loc, -1)
    ELSE IF st.have_high_nibble
    THEN [st |-> [st EXCEPT !.have_high_nibble = FALSE],
          byte_pos |-> loc.byte_pos, decoded |-> loc.decoded + 1,
          l |-> Sample8(st.high_nibble_sample),
          r |-> 0, used |-> NoUse, crossed |-> -1]
    ELSE Only({
           IF nb.st.info.is_finished THEN Silent(nb.st, loc, nb.crossed)
           ELSE Only({ [st |-> [nb.st EXCEPT !.left = u.ch,
                                             !.high_nibble_sample = u.samples[2],
                                             !.have_high_nibble = TRUE],
                        byte_pos |-> nb.byte_pos + 1,
                        decoded |-> loc.decoded + 1,
                        l |-> Sample8(u.samples[1]), r |-> 0,
                        used |-> Use(nb.st, nb.byte_pos), crossed |-> nb.crossed] :
                       u \in { Unpack(2, <<byte % 16, byte \div 16>>,
                                      nb.st.left, <<>>) :
                                 byte \in {DataByte(g, nb.st, nb.byte_pos)} } })
           : nb \in {NeedBlock(g, st, loc, 1)} })

decode_buffer_mono_2bit(g, st, loc) ==
    IF st.info.is_finished THEN Silent(st, loc, -1)
    ELSE IF st.samples_buffered > 0
    THEN [st |-> [st EXCEPT !.samples_buffered = @ - 1],
          byte_pos |-> loc.byte_pos, decoded |-> loc.decoded + 1,
          l |-> Sample8(st.buffered_samples[4 - st.samples_buffered + 1]),
          r |-> 0, used |-> NoUse, crossed |-> -1]
    ELSE Only({
           IF nb.st.info.is_finished THEN Silent(nb.st, loc, nb.crossed)
           ELSE Only({ [st |-> [nb.st EXCEPT !.left = u.ch,
                                             !.buffered_samples =
                                                 u.samples \o SubSeq(@, 5, 8),
                                             !.samples_buffered = 3],
                        byte_pos |-> nb.byte_pos + 1,
                        decoded |-> loc.decoded + 1,
                        l |-> Sample8(u.samples[1]), r |-> 0,
                        used |-> Use(nb.st, nb.byte_pos), crossed |-> nb.crossed] :
                       u \in { Unpack(st.info.mode,
                                      [k \in 1 .. 4 |-> (byte \div (4 ^ (k - 1))) % 4],
                                      nb.st.left, <<>>) :
                                 byte \in {DataByte(g, nb.st, nb.byte_pos)} } })
           : nb \in {NeedBlock(g, st, loc, 1)} })

decode_buffer(g, st, loc) ==
    CASE st.info.mode = 0 -> decode_buffer_stereo_4bit(g, st, loc)
      [] st.info.mode = 1 -> decode_buffer_mono_3bit(g, st, loc)
      [] st.info.mode = 2 -> decode_buffer_mono_4bit(g, st, loc)
      [] st.info.mode \in {3, 4} -> decode_buffer_mono_2bit(g, st, loc)
      [] OTHER -> Silent(st, loc, -1)

---------------------------------------------------------------------------
(* The playback calls.  snd is                                             *)
(*   pc       "boot" before gbs_audio_init, "idle" between calls,          *)
(*            "decode" inside the sample loop of decode_buffer;            *)
(*   call     the call in progress or the last one made, arg its argument; *)
(*   phase    which of the two buffers gbs_audio_start is pre-decoding;    *)
(*   i, byte_pos, decoded   the locals of decode_buffer_*;                 *)
(*   l, r     the bytes last written to left[i] and right[i];              *)
(*   used, crossed   as returned by the last loop iteration;               *)
(*   ret      the value gbs_audio_init returned;                           *)
(*   timer, irq, dma1, dma2   timers 0/1 running, IRQ_TIMER1 enabled,      *)
(*            DMA1 / DMA2 enabled;                                         *)
(*   ticks, seeks   how many timer interrupts were handled since the last  *)
(*            (re)start and how many stops, restarts or seeks were made;   *)
(*   sad      the index of the buffer REG_DMA1SAD / REG_DMA2SAD point at;  *)
(*   api, main   the API call the main program is inside and the statement *)
(*            it executes next ("idle" between calls), kept while the      *)
(*            interrupt handler runs;                                      *)
(*   minute   the local of gbs_audio_check_minute_sync;                    *)
(*   published, returned   the minutes the handler has published and the   *)
(*            values gbs_audio_check_minute_sync has returned;             *)
(*   progress the value gbs_audio_get_progress returned last.              *)

video == <<data, hdr_version, wild, version, offset, refArg, seed, dst, ctx,
           frame, stack, x_block, y_block, pc, ret, op, mb, covered>>

BootSnd ==
    [pc |-> "boot", call |-> "none", arg |-> 0, phase |-> 0,
     i |-> 0, byte_pos |-> 0, decoded |-> 0, l |-> 0, r |-> 0,
     used |-> NoUse, crossed |-> -1, ret |-> FALSE,
     timer |-> FALSE, irq |-> FALSE, dma1 |-> FALSE, dma2 |-> FALSE,
     ticks |-> 0, seeks |-> 0,
     sad |-> 0, api |-> "none", main |-> "idle", minute |-> -1,
     published |-> <<>>, returned |-> <<>>, progress |-> 0]

MaxTicks == 5
MaxSeeks == 1
SeekMinutes == {0, 4, 7}

GbsAudioInit ==
    /\ snd.pc = "boot"
    /\ \E r \in {gbs_audio_init(gbs)} :
          /\ audio_state' = r.st
          /\ snd' = [snd EXCEPT !.pc = "idle", !.call = "init", !.ret = r.ret]
    /\ UNCHANGED gbs
    /\ UNCHANGED <<video, pack>>

\* entry of decode_buffer(…, AUDIO_BUFFER_SAMPLES)
EnterLoop(st, hw, phase) ==
    [hw EXCEPT !.pc = "decode", !.phase = phase, !.i = 0,
               !.byte_pos = st.byte_in_block, !.decoded = 0]

\* exit of the sample loop
LeaveLoop(st, hw) ==
    [st EXCEPT !.byte_in_block = hw.byte_pos,
               !.info.samples_decoded = @ + hw.decoded]

\* gbs_audio_start up to its first decode_buffer call: [st, hw]
gbs_audio_start(st, hw, call, arg) ==
    IF st.info.mode = GBS_MODE_INVALID \/ st.info.is_finished
    THEN [st |-> st, hw |-> [hw EXCEPT !.pc = "idle", !.call = call, !.arg = arg]]
    ELSE [st |-> st,
          hw |-> [EnterLoop(st, hw, 0) EXCEPT !.call = call, !.arg = arg, !.ticks = 0]]

\* gbs_audio_stop from REG_TM0CNT_H = 0 on
stop_timers(st, hw) ==
    [st |-> [st EXCEPT !.info.is_playing = FALSE, !.is_paused = FALSE],
     hw |-> [hw EXCEPT !.timer = FALSE, !.irq = FALSE]]

gbs_audio_stop(st, hw) ==
    stop_timers(st, [hw EXCEPT !.dma1 = FALSE, !.dma2 = FALSE])

GbsAudioStart ==
    /\ snd.pc = "idle"
    /\ snd.call = "init"
    /\ \E r \in {gbs_audio_start(audio_state, snd, "start", 0)} :
          audio_state' = r.st /\ snd' = r.hw
    /\ UNCHANGED gbs
    /\ UNCHANGED <<video, pack>>

DecodeSample ==
    /\ snd.pc = "decode"
    /\ snd.i < AUDIO_BUFFER_SAMPLES
    /\ \E r \in {decode_buffer(gbs, audio_state, snd)} :
          /\ audio_state' = r.st
          /\ snd' = [snd EXCEPT !.i = @ + 1, !.byte_pos = r.byte_pos,
                                !.decoded = r.decoded, !.l = r.l, !.r = r.r,
                                !.used = r.used, !.crossed = r.crossed]
    /\ UNCHANGED gbs
    /\ UNCHANGED <<video, pack>>

\* gbs_audio_start between its two decode_buffer calls
StartSecondBuffer ==
    /\ snd.pc = "decode"
    /\ snd.i = AUDIO_BUFFER_SAMPLES
    /\ snd.call # "irq"
    /\ snd.phase = 0
    /\ audio_state' = LeaveLoop(audio_state, snd)
    /\ snd' = EnterLoop(audio_state', snd, 1)
    /\ UNCHANGED gbs
    /\ UNCHANGED <<video, pack>>

\* gbs_audio_start after its second decode_buffer call
StartReturn ==
    /\ snd.pc = "decode"
    /\ snd.i = AUDIO_BUFFER_SAMPLES
    /\ snd.call # "irq"
    /\ snd.phase = 1
    /\ audio_state' = [LeaveLoop(audio_state, snd) EXCEPT
                          !.active_buffer = 0, !.info.is_playing = TRUE]
    /\ snd' = [snd EXCEPT !.pc = "idle", !.timer = TRUE, !.irq = TRUE,
                          !.dma1 = TRUE, !.sad = 0,
                          !.dma2 = IF audio_state.info.channels = 2 THEN TRUE ELSE @]
    /\ UNCHANGED gbs
    /\ UNCHANGED <<video, pack>>

\* audio_timer1_handler up to the end of its decode_buffer call
Timer1Handler ==
    /\ snd.pc = "idle"
    /\ snd.timer
    /\ snd.irq
    /\ IF audio_state.info.is_finished
       THEN /\ audio_state' = [audio_state EXCEPT !.info.is_playing = FALSE]
            /\ snd' = [snd EXCEPT !.call = "irq", !.dma1 = FALSE, !.dma2 = FALSE,
                                  !.ticks = @ + 1]
       ELSE /\ audio_state' = [audio_state EXCEPT !.active_buffer = 1 - @]
            /\ snd' = [EnterLoop(audio_state, snd, audio_state.active_buffer)
                          EXCEPT !.call = "irq", !.ticks = @ + 1, !.dma1 = TRUE,
                                 !.sad = 1 - audio_state.active_buffer,
                                 !.dma2 = IF audio_state.info.channels = 2
                                          THEN TRUE ELSE @]
    /\ UNCHANGED gbs
    /\ UNCHANGED <<video, pack>>

AudioTimer1Handler ==
    /\ snd.ticks < MaxTicks
    /\ Timer1Handler

\* audio_timer1_handler after its decode_buffer call
TimerReturn ==
    /\ snd.pc = "decode"
    /\ snd.i = AUDIO_BUFFER_SAMPLES
    /\ snd.call = "irq"
    /\ \E s1 \in {LeaveLoop(audio_state, snd)} :
          IF s1.info.samples_decoded >= s1.next_minute_sample
          THEN /\ audio_state' =
                     [s1 EXCEPT !.current_audio_minute = @ + 1,
                                !.next_minute_sample = @ + s1.samples_per_minute,
                                !.sync_minute = s1.current_audio_minute + 1]
               /\ snd' = [snd EXCEPT !.pc = "idle",
                             !.published = Append(@, s1.current_audio_minute + 1)]
          ELSE /\ audio_state' = s1
               /\ snd' = [snd EXCEPT !.pc = "idle"]
    /\ UNCHANGED gbs
    /\ UNCHANGED <<video, pack>>

\* the driver restarts or seeks before playback or once the stream ended
MaySeek ==
    /\ snd.pc = "idle"
    /\ snd.seeks < MaxSeeks
    /\ snd.call = "init" \/ audio_state.info.is_finished

restart_reset_minute0(g, st, hw) ==
    LET s1 == [st EXCEPT !.block_index = 0,
                         !.byte_in_block = 0,
                         !.info.samples_decoded = 0,
                         !.info.is_finished = FALSE,
                         !.current_block_ptr = GBS_HEADER_SIZE,
                         !.current_audio_minute = 0]
    IN  gbs_audio_start(IF s1.info.total_blocks > 0 THEN ParseCurrentBlock(g, s1)
                        ELSE s1,
                        hw, "restart", 0)

\* gbs_audio_restart after its gbs_audio_stop call
restart_reset(g, st, hw) ==
    LET s1 == [st EXCEPT !.block_index = 0,
                         !.byte_in_block = 0,
                         !.info.samples_decoded = 0,
                         !.info.is_finished = FALSE,
                         !.current_block_ptr = GBS_HEADER_SIZE]
    IN  gbs_audio_start(IF s1.info.total_blocks > 0 THEN ParseCurrentBlock(g, s1)
                        ELSE s1,
                        hw, "restart", 0)

gbs_audio_restart(g, st, hw) ==
    LET s0 == gbs_audio_stop(st, hw)
    IN  restart_reset(g, s0.st, s0.hw)

GbsAudioRestart ==
    /\ MaySeek
    /\ \E r \in {gbs_audio_restart(gbs, audio_state, [snd EXCEPT !.seeks = @ + 1])} :
          audio_state' = r.st /\ snd' = r.hw
    /\ UNCHANGED gbs
    /\ UNCHANGED <<video, pack>>

\* gbs_audio_seek_minute after its gbs_audio_stop call
seek_reset(g, st, hw, minute_arg) ==
    LET samples_per_minute == st.info.sample_rate * 60
        wrap == minute_arg * samples_per_minute >= st.info.total_samples
        target_sample == IF wrap THEN 0 ELSE minute_arg * samples_per_minute
        minute == IF wrap THEN 0 ELSE minute_arg
        data_per_block == st.info.block_size - st.block_header_size
        samples_per_block == SamplesPerBlock(st.info.mode, data_per_block)
        block == target_sample \div samples_per_block
        target_block == IF block >= st.info.total_blocks THEN 0 ELSE block
        s1 == [st EXCEPT !.block_index = target_block,
                         !.byte_in_block = 0,
                         !.info.samples_decoded = target_block * samples_per_block,
                         !.info.is_finished = FALSE,
                         !.samples_buffered = 0,
                         !.have_high_nibble = FALSE,
                         !.current_block_ptr = GBS_HEADER_SIZE
                                               + target_block * st.info.block_size,
                         !.next_minute_sample = (minute + 1) * st.samples_per_minute,
                         !.current_audio_minute = minute,
                         !.sync_minute = -1]
    IN  gbs_audio_start(ParseCurrentBlock(g, s1), hw, "seek", minute_arg)

gbs_audio_seek_minute(g, st, hw, minute_arg) ==
    IF st.info.mode = GBS_MODE_INVALID
    THEN [st |-> st, hw |-> [hw EXCEPT !.call = "seek", !.arg = minute_arg]]
    ELSE LET s0 == gbs_audio_stop(st, hw)
         IN  seek_reset(g, s0.st, s0.hw, minute_arg)

GbsAudioSeekMinute ==
    /\ MaySeek
    /\ \E minute \in SeekMinutes :
          \E r \in {gbs_audio_seek_minute(gbs, audio_state,
                                          [snd EXCEPT !.seeks = @ + 1], minute)} :
             audio_state' = r.st /\ snd' = r.hw
    /\ UNCHANGED gbs
    /\ UNCHANGED <<video, pack>>

gbs_audio_get_current_minute(st) ==
    IF st.info.sample_rate = 0 THEN 0
    ELSE st.info.samples_decoded \div (st.info.sample_rate * 60)

gbs_audio_get_total_minutes(st) ==
    IF st.info.sample_rate = 0 THEN 0
    ELSE (st.info.total_samples + st.info.sample_rate * 60 - 1)
         \div (st.info.sample_rate * 60)

---------------------------------------------------------------------------
(* The files SpecAudio starts from.                                        *)

GbsHead(magic, marker, mode) ==
    magic \o <<0, 0, 0, 0>> \o marker \o <<0, 0, 0, 0>> \o mode

GbsFile(mode, blocks, extra, hdr, pat) ==
    [size |-> GBS_HEADER_SIZE + blocks * ModeRow(mode).block_size + extra,
     head |-> GbsHead(MAGIC, MARKER, <<mode, 0, 0, 0>>),
     hdr |-> hdr, pat |-> pat, wild |-> 165]

\* files no longer than a few blocks: empty, or two blocks and a tail
ShortBlocks == 2
TailBytes == 7
ShortFiles ==
    { GbsFile(m, 0, 0, "top", "sevens") : m \in 0 .. 4 }
    \cup { GbsFile(m, ShortBlocks, TailBytes, c[1], c[2]) :
             m \in 0 .. 4,
             c \in {<<"top", "sevens">>, <<"wide", "ones">>, <<"mid", "mixed">>} }

\* files of a little more than LongMinutes minutes
LongMinutes == 5
LongBlocks(m) ==
    (LongMinutes * ModeRow(m).sample_rate * 60)
    \div SamplesPerBlock(m, ModeRow(m).block_size - ModeRow(m).block_header_size) + 1
LongFiles == { GbsFile(m, LongBlocks(m), 0, "mid", "mixed") : m \in 0 .. 4 }

\* files gbs_audio_init must refuse
BadFiles ==
    LET good == GbsFile(3, ShortBlocks, 0, "top", "sevens")
    IN  { [good EXCEPT !.size = 0], [good EXCEPT !.size = 511],
          [good EXCEPT !.head = GbsHead(<<71, 66, 65, 77>>, MARKER, <<3, 0, 0, 0>>)],
          [good EXCEPT !.head = GbsHead(<<103, 66, 65, 76>>, MARKER, <<3, 0, 0, 0>>)],
          [good EXCEPT !.head = GbsHead(MAGIC, <<77, 85, 83, 69>>, <<3, 0, 0, 0>>)],
          [good EXCEPT !.head = GbsHead(MAGIC, MAGIC, <<3, 0, 0, 0>>)],
          [good EXCEPT !.head = GbsHead(MAGIC, MARKER, <<5, 0, 0, 0>>)],
          [good EXCEPT !.head = GbsHead(MAGIC, MARKER, <<255, 0, 0, 0>>)],
          [good EXCEPT !.head = GbsHead(MAGIC, MARKER, <<3, 1, 0, 0>>)],
          [good EXCEPT !.head = GbsHead(MAGIC, MARKER, <<0, 0, 0, 128>>)],
          [good EXCEPT !.head = GbsHead(MAGIC, MARKER, <<255, 255, 255, 255>>)] }

VideoIdle ==
    /\ data = <<>>
    /\ hdr_version = 0
    /\ wild = 0
    /\ version = 0
    /\ offset = 0
    /\ refArg = "NULL"
    /\ seed = 0
    /\ dst = NoPixels
    /\ ctx = NoCtx
    /\ frame = NoFrame
    /\ stack = <<>>
    /\ x_block = 0
    /\ y_block = 0
    /\ pc = "audio"
    /\ ret = 0
    /\ op = NoOp
    /\ mb = NoMb
    /\ covered = NoPixels

InitAudio ==
    /\ VideoIdle
    /\ gbs \in ShortFiles \cup LongFiles \cup BadFiles
    /\ audio_state = ZeroState
    /\ snd = BootSnd
    /\ pack = NoPack

NextAudio ==
    \/ GbsAudioInit
    \/ GbsAudioStart
    \/ DecodeSample
    \/ StartSecondBuffer
    \/ StartReturn
    \/ AudioTimer1Handler
    \/ TimerReturn
    \/ GbsAudioRestart
    \/ GbsAudioSeekMinute

SpecAudio == InitAudio /\ [][NextAudio]_vars

---------------------------------------------------------------------------
(* Claims about gbs_audio_init (SpecAudio).                                *)

\* the bytes of the file at offsets from .. from + Len(bytes) - 1 are bytes
HasBytes(g, from, bytes) ==
    \A k \in 1 .. Len(bytes) : GbsByte(g, from + k - 1) = bytes[k]

\* C13: gbs_audio_init returns true exactly when the file has at least 512
\* bytes, starts with "GBAL", holds "MUSI" at offset 8 and a little-endian
\* u32 mode of at most 4 at offset 16; after a false return the mode is
\* GBS_MODE_INVALID and whatever call follows (gbs_audio_start,
\* gbs_audio_seek_minute) returns without entering the sample loop, with
\* nothing decoded, no timer, interrupt or DMA started and is_playing false.
C13_InitValidates ==
    snd.pc # "boot" =>
        /\ snd.ret <=> /\ gbs.size >= 512
                       /\ HasBytes(gbs, 0, <<71, 66, 65, 76>>)
                       /\ HasBytes(gbs, 8, <<77, 85, 83, 73>>)
                       /\ GbsByte(gbs, 16) <= 4
                       /\ HasBytes(gbs, 17, <<0, 0, 0>>)
        /\ ~snd.ret =>
              /\ audio_state.info.mode = GBS_MODE_INVALID
              /\ snd.pc = "idle"
              /\ audio_state.info.samples_decoded = 0
              /\ ~snd.timer /\ ~snd.irq /\ ~snd.dma1 /\ ~snd.dma2
              /\ ~audio_state.info.is_playing

\* a file whose mode word is 259 (low byte 3) was refused and
\* gbs_audio_seek_minute was then called
C13_Witness ==
    /\ snd.call = "seek"
    /\ snd.arg = 4
    /\ ~snd.ret
    /\ gbs.size >= 512
    /\ GbsByte(gbs, 16) = 3
    /\ GbsByte(gbs, 17) = 1
    /\ ~audio_state.info.is_playing

\* C14: after a successful gbs_audio_init, sample_rate, channels, block_size
\* and the block header size are those of the mode table, (22050, 2, 1024, 8)
\* for mode 0, (11025, 1, 1024, 4) for mode 1, (22050, 1, 512, 4) for modes 2
\* and 3 and (22050, 1, 256, 4) for mode 4, and samples_per_minute is
\* sample_rate * 60.
C14_ModeTable ==
    (snd.pc # "boot" /\ snd.ret) =>
        /\ <<audio_state.info.sample_rate, audio_state.info.channels,
             audio_state.info.block_size, audio_state.block_header_size>>
           = CASE audio_state.info.mode = 0 -> <<22050, 2, 1024, 8>>
               [] audio_state.info.mode = 1 -> <<11025, 1, 1024, 4>>
               [] audio_state.info.mode = 2 -> <<22050, 1, 512, 4>>
               [] audio_state.info.mode = 3 -> <<22050, 1, 512, 4>>
               [] audio_state.info.mode = 4 -> <<22050, 1, 256, 4>>
        /\ audio_state.samples_per_minute = audio_state.info.sample_rate * 60

---------------------------------------------------------------------------
(* Claims about the ADPCM kernels (SpecAudio).                             *)

\* the signed diff of the formula kernel for step index si and code n
FormulaDiff(si, n) ==
    LET step == ima_step_table[si + 1]
        mag  == step \div 8 + (IF Bit(n, 2) THEN step ELSE 0)
                            + (IF Bit(n, 1) THEN step \div 2 ELSE 0)
                            + (IF Bit(n, 0) THEN step \div 4 ELSE 0)
    IN  IF Bit(n, 3) THEN -mag ELSE mag

\* the channel after the formula kernel decoded code n
FormulaKernel(n, ch) ==
    [predictor  |-> Clamp(ch.predictor + FormulaDiff(ch.step_index, n), -32768, 32767),
     step_index |-> Clamp(ch.step_index + ima_index_table[n + 1], 0, 88)]

\* the data byte the last loop iteration unpacked
UsedByte == DataByte(gbs, audio_state, snd.used.byte)

\* C15: for every step index 0..88 and code 0..15, ima_diff_table holds the
\* signed diff of the formula kernel, step/8 + (n&4 ? step : 0) +
\* (n&2 ? step/2 : 0) + (n&1 ? step/4 : 0), negated when n&8; and so each
\* byte decoded in the two IMA modes leaves the channel(s) where the formula
\* kernel would leave them.
C15_TableIsFormula ==
    /\ \A si \in 0 .. 88, n \in 0 .. 15 :
          ima_diff_table[si * 16 + n + 1] = FormulaDiff(si, n)
    /\ (audio_state.info.mode = 0 /\ snd.pc = "decode" /\ snd.used.block >= 0) =>
          /\ audio_state.left = FormulaKernel(UsedByte % 16, snd.used.left)
          /\ audio_state.right = FormulaKernel(UsedByte \div 16, snd.used.right)
    /\ (audio_state.info.mode = 2 /\ snd.pc = "decode" /\ snd.used.block >= 0) =>
          audio_state.left = FormulaKernel(UsedByte \div 16,
                                           FormulaKernel(UsedByte % 16, snd.used.left))


\* the codes the last loop iteration unpacked for the left channel, in order
UsedCodes ==
    CASE audio_state.info.mode = 0 -> <<UsedByte % 16>>
      [] audio_state.info.mode = 1 ->
            LET packed == UsedByte
                          + 256 * DataByte(gbs, audio_state, snd.used.byte + 1)
                          + 65536 * DataByte(gbs, audio_state, snd.used.byte + 2)
            IN  [k \in 1 .. 8 |-> (packed \div (8 ^ (k - 1))) % 8]
      [] audio_state.info.mode = 2 -> <<UsedByte % 16, UsedByte \div 16>>
      [] OTHER -> [k \in 1 .. 4 |-> (UsedByte \div (4 ^ (k - 1))) % 4]

\* the left channel after the first k of those codes
AfterCodes(k) ==
    IF audio_state.info.mode = 0
    THEN (IF k = 0 THEN snd.used.left
          ELSE decode_ima_4bit(UsedCodes[1], snd.used.left).ch)
    ELSE Unpack(audio_state.info.mode, SubSeq(UsedCodes, 1, k), snd.used.left, <<>>).ch

Unpacked == snd.pc = "decode" /\ snd.used.block >= 0

Opened == snd.pc # "boot" /\ snd.ret

PredictorInRange(ch) ==
    IF audio_state.info.mode \in {0, 2}
    THEN ch.predictor >= -32768 /\ ch.predictor <= 32767
    ELSE ch.predictor >= 0 /\ ch.predictor <= 65535

\* C16: in every mode the predictor of a channel lies in its range after
\* each block-header parse and after each decoded sample, -32768..32767 in
\* modes 0 and 2 (both channels in mode 0) and 0..65535 in modes 1, 3 and 4;
\* and a mode-2 channel at predictor 32767 and step index 88 that is fed
\* code 7 stays there and emits the 8-bit sample 0x7F for both nibbles.
C16_PredictorInRange ==
    Opened =>
        /\ PredictorInRange(audio_state.left)
        /\ audio_state.info.mode = 0 => PredictorInRange(audio_state.right)
        /\ Unpacked => \A k \in 0 .. Len(UsedCodes) : PredictorInRange(AfterCodes(k))
        /\ ( /\ Unpacked
             /\ audio_state.info.mode = 2
             /\ snd.used.left = [predictor |-> 32767, step_index |-> 88]
             /\ UsedByte = 119 ) =>
                /\ snd.l = 127
                /\ Sample8(audio_state.high_nibble_sample) = 127
                /\ audio_state.left = [predictor |-> 32767, step_index |-> 88]

\* the saturated mode-2 channel is still at 32767 / 88 on the last byte of
\* the second block
C16_Witness ==
    /\ Unpacked
    /\ audio_state.info.mode = 2
    /\ snd.used.left = [predictor |-> 32767, step_index |-> 88]
    /\ UsedByte = 119
    /\ snd.used.block = 1
    /\ snd.used.byte = 507
    /\ snd.l = 127

StepIndexInRange(ch) ==
    /\ ch.step_index >= 0
    /\ ch.step_index <= IF audio_state.info.mode \in {3, 4} THEN 352 ELSE 88

\* the table index the kernel computes for channel ch and code
LookupInTable(ch, code) ==
    CASE audio_state.info.mode \in {0, 2} ->
            /\ ch.step_index * 16 + code <= 1423
            /\ ch.step_index * 16 + code + 1 \in DOMAIN ima_diff_table
      [] audio_state.info.mode = 1 -> ch.step_index + 1 \in DOMAIN ima_step_table
      [] OTHER ->
            (IF code + ch.step_index > 352 THEN 352 ELSE code + ch.step_index) + 1
                \in DOMAIN adpcm2_delta_table

\* C17: after every block-header parse and after every prefix of codes the
\* step index lies in 0..88 in modes 0, 1 and 2 and in 0..352 in modes 3 and
\* 4, so every index into ima_step_table, ima_diff_table (step_index * 16 + n
\* <= 1423) and adpcm2_delta_table (min(step_index + code, 352)) is inside
\* the table.
C17_StepIndexInRange ==
    Opened =>
        /\ StepIndexInRange(audio_state.left)
        /\ audio_state.info.mode = 0 => StepIndexInRange(audio_state.right)
        /\ Unpacked =>
              /\ \A k \in 0 .. Len(UsedCodes) : StepIndexInRange(AfterCodes(k))
              /\ \A k \in 1 .. Len(UsedCodes) : LookupInTable(AfterCodes(k - 1), UsedCodes[k])
              /\ audio_state.info.mode = 0 =>
                    LookupInTable(snd.used.right, UsedByte \div 16)

\* a 2-bit channel whose header step 65535 was clamped to 352 is fed code 3
\* at the cap
C17_Witness ==
    /\ Unpacked
    /\ audio_state.info.mode = 3
    /\ GbsU16(gbs, audio_state.current_block_ptr + 2) = 65535
    /\ snd.used.byte = 0
    /\ snd.used.left.step_index = 352
    /\ UsedByte = 255
    /\ audio_state.left.step_index = 352

---------------------------------------------------------------------------
(* Claims about the block cursor (SpecAudio).                              *)

\* the channel a block header at file offset p describes in the current mode
HeaderChannel(p) ==
    [predictor  |-> IF audio_state.info.mode \in {0, 2}
                    THEN GbsU16(gbs, p) - 32768
                    ELSE GbsU16(gbs, p),
     step_index |-> LET cap == IF audio_state.info.mode \in {3, 4} THEN 352 ELSE 88
                    IN  IF GbsU16(gbs, p + 2) > cap THEN cap ELSE GbsU16(gbs, p + 2)]

\* C18: when the sample loop crosses from block k-1 into block k, the first
\* code of block k is decoded from exactly the predictor (less 0x8000 in
\* modes 0 and 2) and the clamped step index of block k's header, whatever
\* the channel and the carried samples were at the end of block k-1; and a
\* block is left only when exactly block_size - block_header_size of its
\* data bytes have been consumed.
C18_BlockStartsFromHeader ==
    (Opened /\ snd.pc = "decode" /\ snd.crossed >= 0) =>
        /\ snd.crossed = audio_state.info.block_size - audio_state.block_header_size
        /\ snd.used.block >= 0 =>
              /\ snd.used.byte = 0
              /\ snd.used.block < audio_state.info.total_blocks
              /\ audio_state.current_block_ptr
                 = GBS_HEADER_SIZE + snd.used.block * audio_state.info.block_size
              /\ snd.used.left = HeaderChannel(audio_state.current_block_ptr)
              /\ audio_state.info.mode = 0 =>
                    snd.used.right = HeaderChannel(audio_state.current_block_ptr + 4)

\* the 3-bit decoder crossed into block 1 after 1020 data bytes and started
\* from that block's header, 32767 with step 353 clamped to 88
C18_Witness ==
    /\ snd.pc = "decode"
    /\ audio_state.info.mode = 1
    /\ snd.crossed = 1020
    /\ snd.used.block = 1
    /\ gbs.hdr = "wide"
    /\ snd.used.left = [predictor |-> 32767, step_index |-> 88]
    /\ audio_state.samples_buffered = 7


\* the samples counted so far: samples_decoded plus the loop's local count
Counted(st, hw) ==
    st.info.samples_decoded + (IF hw.pc = "decode" THEN hw.decoded ELSE 0)

\* nothing unpacked ahead is waiting to be emitted
NoCarry(st) == st.samples_buffered = 0 /\ ~st.have_high_nibble

\* the data of block total_blocks - 1 is exhausted
LastBlockExhausted(st, hw) ==
    /\ st.block_index = st.info.total_blocks - 1
    /\ hw.byte_pos = st.info.block_size - st.block_header_size
    /\ NoCarry(st)

\* C19: total_blocks is (gbs_size - 512) div block_size; the finished flag
\* becomes true exactly in the loop iteration that asks for a sample when
\* the data of block total_blocks - 1 is exhausted; the samples counted up
\* to then (one per sample, one per left/right pair in stereo) are
\* total_samples = total_blocks * samples_per_block; every slot written from
\* then on is 0, the count no longer changes, and finished stays true until
\* gbs_audio_restart or gbs_audio_seek_minute.
C19_FinishedAtEnd ==
    [][ (Opened /\ Opened') =>
          /\ audio_state'.info.total_blocks
             = (gbs.size - 512) \div audio_state'.info.block_size
          /\ audio_state'.info.total_samples
             = audio_state'.info.total_blocks
               * SamplesPerBlock(audio_state'.info.mode,
                    audio_state'.info.block_size - audio_state'.block_header_size)
          /\ (~audio_state.info.is_finished /\ audio_state'.info.is_finished) =>
                /\ snd.pc = "decode" /\ snd'.i = snd.i + 1
                /\ LastBlockExhausted(audio_state, snd)
                /\ Counted(audio_state', snd') = audio_state'.info.total_samples
          /\ ( /\ snd.pc = "decode" /\ snd'.i = snd.i + 1
               /\ ~audio_state.info.is_finished
               /\ LastBlockExhausted(audio_state, snd) ) =>
                audio_state'.info.is_finished
          /\ (audio_state'.info.is_finished /\ snd.pc = "decode" /\ snd'.i = snd.i + 1) =>
                snd'.l = 0 /\ snd'.r = 0
          /\ (audio_state.info.is_finished /\ snd'.seeks = snd.seeks) =>
                /\ audio_state'.info.is_finished
                /\ Counted(audio_state', snd') = Counted(audio_state, snd)
      ]_vars


\* C20: right after gbs_audio_seek_minute(m) returns,
\* gbs_audio_get_current_minute() is m when m is below
\* gbs_audio_get_total_minutes(), and total_minutes - 1 when m is at or
\* past the end.
C20_SeekThenCurrentMinute ==
    (Opened /\ snd.call = "seek" /\ snd.pc = "idle") =>
        gbs_audio_get_current_minute(audio_state)
        = IF snd.arg < gbs_audio_get_total_minutes(audio_state)
          THEN snd.arg
          ELSE gbs_audio_get_total_minutes(audio_state) - 1


---------------------------------------------------------------------------
(* The main program and the timer 1 interrupt.                             *)
(*                                                                         *)
(* SpecIrq runs the API calls of the playback driver statement by          *)
(* statement wherever the interrupt can fall between two of them.  The     *)
(* handler is entered at an instruction boundary of the main program while *)
(* timers 0 and 1 run and IRQ_TIMER1 is enabled, and runs to its end       *)
(* before the main program continues.  Timer 1 overflows once per          *)
(* AUDIO_BUFFER_SAMPLES sample periods: its phase relative to the main     *)
(* program is arbitrary, but it does not overflow within the few           *)
(* statements that follow its own start in gbs_audio_start and             *)
(* gbs_audio_resume, nor once timer 0 is stopped.  The driver starts a     *)
(* stream that is not playing, and stops, restarts, seeks and pauses one   *)
(* it has started.                                                         *)

IrqTicks == 1
IrqSeeks == 2
IrqMinutes == {0, LongMinutes - 1}

IrqFiles ==
    { GbsFile(m, LongBlocks(m), 0, "mid", "mixed") : m \in {0, 1} }
    \cup { GbsFile(4, ShortBlocks, TailBytes, "top", "sevens") }

DriverIdle == Opened /\ snd.pc = "idle" /\ snd.main = "idle"

\* gbs_audio_start() on a stream gbs_audio_stop() has stopped
StartAfterStop ==
    /\ DriverIdle
    /\ snd.call = "stop"
    /\ \E r \in {gbs_audio_start(audio_state, snd, "start", 0)} :
          audio_state' = r.st /\ snd' = r.hw
    /\ UNCHANGED gbs
    /\ UNCHANGED <<video, pack>>

\* the interrupt is taken
Timer1Irq ==
    /\ snd.ticks < IrqTicks
    /\ Timer1Handler

\* REG_DMA1CNT = 0, the first statement of gbs_audio_stop, in the call api
StopDma1(api, arg) ==
    /\ DriverIdle
    /\ snd.call # "init"
    /\ snd.seeks < IrqSeeks
    /\ snd' = [snd EXCEPT !.dma1 = FALSE, !.api = api, !.arg = arg,
                          !.main = "dma2", !.seeks = @ + 1]
    /\ UNCHANGED audio_state
    /\ UNCHANGED gbs
    /\ UNCHANGED <<video, pack>>

EnterStop == StopDma1("stop", 0)

EnterRestart == StopDma1("restart", 0)

EnterSeekMinute ==
    /\ audio_state.info.mode # GBS_MODE_INVALID
    /\ \E minute \in IrqMinutes : StopDma1("seek", minute)

\* REG_DMA2CNT = 0
StopDma2 ==
    /\ snd.pc = "idle"
    /\ snd.main = "dma2"
    /\ snd' = [snd EXCEPT !.dma2 = FALSE, !.main = "timers"]
    /\ UNCHANGED audio_state
    /\ UNCHANGED gbs
    /\ UNCHANGED <<video, pack>>

\* the rest of gbs_audio_stop
StopTimers ==
    /\ snd.pc = "idle"
    /\ snd.main = "timers"
    /\ \E r \in {stop_timers(audio_state, snd)} :
          /\ audio_state' = r.st
          /\ snd' = IF snd.api = "stop"
                    THEN [r.hw EXCEPT !.main = "idle", !.call = "stop"]
                    ELSE [r.hw EXCEPT !.main = "reset"]
    /\ UNCHANGED gbs
    /\ UNCHANGED <<video, pack>>

\* gbs_audio_restart from its reset to the first decode_buffer of
\* gbs_audio_start
RestartReset ==
    /\ snd.pc = "idle"
    /\ snd.main = "reset"
    /\ snd.api = "restart"
    /\ \E r \in {restart_reset(gbs, audio_state, [snd EXCEPT !.main = "idle"])} :
          audio_state' = r.st /\ snd' = r.hw
    /\ UNCHANGED gbs
    /\ UNCHANGED <<video, pack>>

\* gbs_audio_seek_minute from its reset to the first decode_buffer of
\* gbs_audio_start
SeekReset ==
    /\ snd.pc = "idle"
    /\ snd.main = "reset"
    /\ snd.api = "seek"
    /\ \E r \in {seek_reset(gbs, audio_state, [snd EXCEPT !.main = "idle"],
                            snd.arg)} :
          audio_state' = r.st /\ snd' = r.hw
    /\ UNCHANGED gbs
    /\ UNCHANGED <<video, pack>>

\* gbs_audio_pause: its test
PauseCheck ==
    /\ DriverIdle
    /\ audio_state.info.is_playing
    /\ ~audio_state.is_paused
    /\ snd' = [snd EXCEPT !.api = "pause", !.main = "pause"]
    /\ UNCHANGED audio_state
    /\ UNCHANGED gbs
    /\ UNCHANGED <<video, pack>>

\* gbs_audio_pause: the timers are stopped
PauseTimers ==
    /\ snd.pc = "idle"
    /\ snd.main = "pause"
    /\ audio_state' = [audio_state EXCEPT !.is_paused = TRUE]
    /\ snd' = [snd EXCEPT !.timer = FALSE, !.main = "idle", !.call = "pause"]
    /\ UNCHANGED gbs
    /\ UNCHANGED <<video, pack>>

GbsAudioResume_buffer0 ==
    /\ DriverIdle
    /\ audio_state.info.is_playing
    /\ audio_state.is_paused
    /\ audio_state' = [audio_state EXCEPT !.is_paused = FALSE]
    /\ snd' = [snd EXCEPT !.dma1 = TRUE, !.sad = 0,
                          !.dma2 = IF audio_state.info.channels = 2 THEN TRUE ELSE @,
                          !.timer = TRUE, !.call = "resume"]
    /\ UNCHANGED gbs
    /\ UNCHANGED <<video, pack>>

GbsAudioResume ==
    /\ DriverIdle
    /\ audio_state.info.is_playing
    /\ audio_state.is_paused
    /\ audio_state' = [audio_state EXCEPT !.is_paused = FALSE]
    /\ snd' = [snd EXCEPT !.dma1 = TRUE, !.sad = audio_state.active_buffer,
                          !.dma2 = IF audio_state.info.channels = 2 THEN TRUE ELSE @,
                          !.timer = TRUE, !.call = "resume"]
    /\ UNCHANGED gbs
    /\ UNCHANGED <<video, pack>>

InitIrq ==
    /\ VideoIdle
    /\ gbs \in IrqFiles
    /\ audio_state = ZeroState
    /\ snd = BootSnd
    /\ pack = NoPack

NextIrq ==
    \/ GbsAudioInit
    \/ GbsAudioStart
    \/ StartAfterStop
    \/ DecodeSample
    \/ StartSecondBuffer
    \/ StartReturn
    \/ Timer1Irq
    \/ TimerReturn
    \/ EnterStop
    \/ EnterRestart
    \/ EnterSeekMinute
    \/ StopDma2
    \/ StopTimers
    \/ RestartReset
    \/ SeekReset
    \/ PauseCheck
    \/ PauseTimers
    \/ GbsAudioResume

SpecIrq == InitIrq /\ [][NextIrq]_vars


---------------------------------------------------------------------------
(* Claims about the driver calls and the interrupt.                        *)

\* the minute gbs_audio_seek_minute(minute_arg) lands on
SeekTarget(st, minute_arg) ==
    IF minute_arg * (st.info.sample_rate * 60) >= st.info.total_samples
    THEN 0 ELSE minute_arg

Stopped ==
    Opened /\ snd.call = "stop" /\ snd.main = "idle" /\ snd.pc = "idle"

\* C23: once gbs_audio_stop() has returned, DMA 1 and 2 and timers 0 and 1
\* are disabled and is_playing is false, wherever in stop() the interrupt
\* handler ran, and stay so; a handler entered after stop() changes none of
\* active_buffer, the block position, the channel state, samples_decoded
\* and the sync fields.
C23_StopIsFinal ==
    [][ /\ Stopped' =>
              /\ ~snd'.dma1 /\ ~snd'.dma2
              /\ ~snd'.timer /\ ~snd'.irq
              /\ ~audio_state'.info.is_playing
        /\ (Stopped /\ snd'.call = "irq") =>
              /\ audio_state'.active_buffer = audio_state.active_buffer
              /\ audio_state'.block_index = audio_state.block_index
              /\ audio_state'.current_block_ptr = audio_state.current_block_ptr
              /\ audio_state'.byte_in_block = audio_state.byte_in_block
              /\ audio_state'.left = audio_state.left
              /\ audio_state'.right = audio_state.right
              /\ audio_state'.info.samples_decoded = audio_state.info.samples_decoded
              /\ audio_state'.next_minute_sample = audio_state.next_minute_sample
              /\ audio_state'.current_audio_minute = audio_state.current_audio_minute
              /\ audio_state'.sync_minute = audio_state.sync_minute
      ]_vars


\* the state a restart or a seek to the minute and block given starts to
\* decode from
FreshPosition(g, st, minute, block) ==
    /\ st.block_index = block
    /\ st.current_block_ptr = GBS_HEADER_SIZE + block * st.info.block_size
    /\ st.byte_in_block = 0
    /\ st.info.samples_decoded
       = block * SamplesPerBlock(st.info.mode,
                                 st.info.block_size - st.block_header_size)
    /\ st = ParseCurrentBlock(g, st)
    /\ NoCarry(st)
    /\ st.current_audio_minute = minute
    /\ st.next_minute_sample = (minute + 1) * st.samples_per_minute
    /\ st.sync_minute = -1

\* the main program is inside gbs_audio_restart or gbs_audio_seek_minute,
\* past its gbs_audio_stop call
Resetting ==
    /\ snd.api \in {"restart", "seek"}
    /\ \/ snd.main = "reset"
       \/ snd.pc = "decode" /\ snd.call \in {"restart", "seek"}

\* C24: gbs_audio_seek_minute and gbs_audio_restart run as stop, reset,
\* start: from the end of the stop to the end of the start the timers and
\* the interrupt are off and no handler runs, the only steps outside that
\* span that change the decoder state being the handler's; and when the
\* reset is done block_index, current_block_ptr, byte_in_block, the channel
\* state, the carries, samples_decoded and the sync fields are those of the
\* target position (minute 0, block 0 for a restart).
C24_SeekIsAtomic ==
    [][ /\ Resetting => (~snd.timer /\ ~snd.irq /\ snd'.call # "irq")
        /\ (snd.main = "reset" /\ snd'.main = "idle") =>
              FreshPosition(gbs, audio_state',
                  IF snd.api = "seek" THEN SeekTarget(audio_state, snd.arg) ELSE 0,
                  IF snd.api = "seek"
                  THEN (SeekTarget(audio_state, snd.arg)
                        * (audio_state.info.sample_rate * 60))
                       \div SamplesPerBlock(audio_state.info.mode,
                               audio_state.info.block_size
                               - audio_state.block_header_size)
                  ELSE 0)
        /\ (snd.api \in {"restart", "seek"} /\ snd.main \in {"dma2", "timers"}
            /\ snd'.main = snd.main /\ audio_state' # audio_state) =>
              snd'.call = "irq"
      ]_vars


---------------------------------------------------------------------------
(* The minute signal.                                                      *)
(*                                                                         *)
(* SpecSync plays a stream from gbs_audio_init up to its first minute      *)
(* boundary while the driver polls gbs_audio_check_minute_sync, the        *)
(* interrupt falling before, between and after its read and its clear.     *)
(* gbs_audio_start and the handler are one step each here.  A poll that    *)
(* finds the slot empty changes nothing, so the driver's polls are         *)
(* explored from PollLead buffers before the boundary on.                  *)

\* the sample loop of decode_buffer run n times from loc: [st, loc]
RECURSIVE DecodeLoop(_, _, _, _)
DecodeLoop(g, st, loc, n) ==
    IF n = 1
    THEN Only({ [st |-> d.st,
                 loc |-> [byte_pos |-> d.byte_pos, decoded |-> d.decoded]] :
                d \in {decode_buffer(g, st, loc)} })
    ELSE Only({ DecodeLoop(g, h.st, h.loc, m) :
                m \in {n - n \div 2}, h \in {DecodeLoop(g, st, loc, n \div 2)} })

\* decode_buffer(left, right, count): the state it leaves
decode_buffer_count(g, st, count) ==
    Only({ LeaveLoop(r.st, r.loc) :
           r \in {DecodeLoop(g, st, [byte_pos |-> st.byte_in_block, decoded |-> 0],
                             count)} })

\* gbs_audio_start: [st, hw]
start_playback(g, st, hw) ==
    IF st.info.mode = GBS_MODE_INVALID \/ st.info.is_finished
    THEN [st |-> st, hw |-> [hw EXCEPT !.call = "start"]]
    ELSE Only({ [st |-> [s2 EXCEPT !.active_buffer = 0, !.info.is_playing = TRUE],
                 hw |-> [hw EXCEPT !.call = "start", !.ticks = 0,
                                   !.timer = TRUE, !.irq = TRUE,
                                   !.dma1 = TRUE, !.sad = 0,
                                   !.dma2 = IF st.info.channels = 2 THEN TRUE ELSE @]] :
                s2 \in {decode_buffer_count(
                           g, decode_buffer_count(g, st, AUDIO_BUFFER_SAMPLES),
                           AUDIO_BUFFER_SAMPLES)} })

\* audio_timer1_handler: [st, hw]
audio_timer1_handler(g, st, hw) ==
    IF st.info.is_finished
    THEN [st |-> [st EXCEPT !.info.is_playing = FALSE],
          hw |-> [hw EXCEPT !.call = "irq", !.dma1 = FALSE, !.dma2 = FALSE,
                            !.ticks = @ + 1]]
    ELSE Only({
           IF s1.info.samples_decoded >= s1.next_minute_sample
           THEN [st |-> [s1 EXCEPT !.current_audio_minute = @ + 1,
                                   !.next_minute_sample = @ + s1.samples_per_minute,
                                   !.sync_minute = s1.current_audio_minute + 1],
                 hw |-> [h1 EXCEPT
                            !.published = Append(@, s1.current_audio_minute + 1)]]
           ELSE [st |-> s1, hw |-> h1]
           : s1 \in {decode_buffer_count(
                        g, [st EXCEPT !.active_buffer = 1 - @], AUDIO_BUFFER_SAMPLES)},
             h1 \in {[hw EXCEPT !.call = "irq", !.ticks = @ + 1, !.dma1 = TRUE,
                                !.sad = 1 - st.active_buffer,
                                !.phase = st.active_buffer,
                                !.dma2 = IF st.info.channels = 2 THEN TRUE ELSE @]} })

SyncTicks == 645
PollLead == 2

SyncFiles ==
    { GbsFile(1, LongBlocks(1), 0, "mid", "mixed"),
      GbsFile(3, ShortBlocks, TailBytes, "top", "sevens") }

SyncStart ==
    /\ DriverIdle
    /\ snd.call = "init"
    /\ \E r \in {start_playback(gbs, audio_state, snd)} :
          audio_state' = r.st /\ snd' = r.hw
    /\ UNCHANGED gbs
    /\ UNCHANGED <<video, pack>>

SyncIrq ==
    /\ snd.pc = "idle"
    /\ snd.timer
    /\ snd.irq
    /\ snd.ticks < SyncTicks
    /\ \E r \in {audio_timer1_handler(gbs, audio_state, snd)} :
          audio_state' = r.st /\ snd' = r.hw
    /\ UNCHANGED gbs
    /\ UNCHANGED <<video, pack>>

\* gbs_audio_check_minute_sync: int32_t minute = state.sync_minute
CheckRead ==
    /\ DriverIdle
    /\ \/ snd.published # <<>>
       \/ audio_state.info.samples_decoded + PollLead * AUDIO_BUFFER_SAMPLES
          >= audio_state.next_minute_sample
    /\ snd' = [snd EXCEPT !.api = "check", !.main = "clear",
                          !.minute = audio_state.sync_minute]
    /\ UNCHANGED audio_state
    /\ UNCHANGED gbs
    /\ UNCHANGED <<video, pack>>

CheckClear_keep ==
    /\ snd.pc = "idle"
    /\ snd.main = "clear"
    /\ UNCHANGED audio_state
    /\ snd' = [snd EXCEPT !.main = "idle", !.call = "check",
                          !.returned = IF snd.minute >= 0
                                       THEN Append(@, snd.minute) ELSE @]
    /\ UNCHANGED gbs
    /\ UNCHANGED <<video, pack>>

\* gbs_audio_check_minute_sync: the clear and the return
CheckClear ==
    /\ snd.pc = "idle"
    /\ snd.main = "clear"
    /\ audio_state' = IF snd.minute >= 0
                      THEN [audio_state EXCEPT !.sync_minute = -1]
                      ELSE audio_state
    /\ snd' = [snd EXCEPT !.main = "idle", !.call = "check",
                          !.returned = IF snd.minute >= 0
                                       THEN Append(@, snd.minute) ELSE @]
    /\ UNCHANGED gbs
    /\ UNCHANGED <<video, pack>>

InitSync ==
    /\ VideoIdle
    /\ gbs \in SyncFiles
    /\ audio_state = ZeroState
    /\ snd = BootSnd
    /\ pack = NoPack

NextSync ==
    \/ GbsAudioInit
    \/ SyncStart
    \/ SyncIrq
    \/ CheckRead
    \/ CheckClear

SpecSync == InitSync /\ [][NextSync]_vars


\* the minute in the slot, or in the hands of a poll that has read it and
\* not yet returned
Pending ==
    IF audio_state.sync_minute >= 0 THEN <<audio_state.sync_minute>>
    ELSE IF snd.main = "clear" /\ snd.minute >= 0 THEN <<snd.minute>>
    ELSE <<>>

---------------------------------------------------------------------------
(* gbs_audio_get_progress.                                                 *)
(*                                                                         *)
(* SpecProgress opens files of a little more than HourMinutes minutes (and *)
(* an empty one), seeks to a minute, lets the stream play for a few        *)
(* interrupts and asks for the progress between them.                      *)

\* (x * 100) in uint32_t, as its 16-bit halves
Times100(x) ==
    LET t == (x % U16) * 100
    IN  [hi |-> ((x \div U16) * 100 + t \div U16) % U16, lo |-> t % U16]

\* v / d in uint32_t, v given by its 16-bit halves, 0 < d < 2^30
Div32(v, d) ==
    LET half == v.hi * (U16 \div 2) + v.lo \div 2
    IN  2 * (half \div d) + (2 * (half % d) + (v.lo % 2)) \div d

gbs_audio_get_progress(st) ==
    IF st.info.total_samples = 0 THEN 0
    ELSE Div32(Times100(st.info.samples_decoded), st.info.total_samples)

HourMinutes == 70
ProgressSeeks == 1
ProgressMinutes == {0, 1, 32, 33, 64, 65, HourMinutes - 1}

HourBlocks(m) ==
    (HourMinutes * ModeRow(m).sample_rate * 60)
    \div SamplesPerBlock(m, ModeRow(m).block_size - ModeRow(m).block_header_size) + 1

ProgressFiles ==
    { GbsFile(m, HourBlocks(m), 0, "mid", "mixed") : m \in {0, 1, 3} }
    \cup { GbsFile(3, 0, 0, "top", "sevens") }

ProgressSeek ==
    /\ Opened
    /\ snd.pc = "idle"
    /\ snd.seeks < ProgressSeeks
    /\ \E minute \in ProgressMinutes :
          \E r \in {gbs_audio_seek_minute(gbs, audio_state,
                                          [snd EXCEPT !.seeks = @ + 1], minute)} :
             audio_state' = r.st /\ snd' = r.hw
    /\ UNCHANGED gbs
    /\ UNCHANGED <<video, pack>>

GetProgress ==
    /\ Opened
    /\ snd.pc = "idle"
    /\ snd' = [snd EXCEPT !.call = "progress",
                          !.progress = gbs_audio_get_progress(audio_state)]
    /\ UNCHANGED audio_state
    /\ UNCHANGED gbs
    /\ UNCHANGED <<video, pack>>

InitProgress ==
    /\ VideoIdle
    /\ gbs \in ProgressFiles
    /\ audio_state = ZeroState
    /\ snd = BootSnd
    /\ pack = NoPack

NextProgress ==
    \/ GbsAudioInit
    \/ ProgressSeek
    \/ DecodeSample
    \/ StartSecondBuffer
    \/ StartReturn
    \/ AudioTimer1Handler
    \/ TimerReturn
    \/ GetProgress

SpecProgress == InitProgress /\ [][NextProgress]_vars

\* floor(100 * n / d) for 0 <= n <= d, d > 0, computed without products
\* beyond d
Percent(n, d) ==
    CHOOSE p \in 0 .. 100 :
       /\ p * (d \div 100) + (p * (d % 100) + 99) \div 100 <= n
       /\ p < 100 =>
             (p + 1) * (d \div 100) + ((p + 1) * (d % 100) + 99) \div 100 > n

\* C26: gbs_audio_get_progress returns floor(100 * samples_decoded /
\* total_samples), a value in 0..100, and 0 when total_samples is 0; and an
\* interrupt that advances playback does not lower the value the function
\* computes.
C26_ProgressExact ==
    [][ /\ (snd'.call = "progress" /\ snd.pc = "idle" /\ snd'.pc = "idle") =>
              /\ snd'.progress \in 0 .. 100
              /\ audio_state.info.total_samples = 0 => snd'.progress = 0
              /\ audio_state.info.total_samples > 0 =>
                    snd'.progress = Percent(audio_state.info.samples_decoded,
                                            audio_state.info.total_samples)
        /\ (snd.call = "irq" /\ snd.pc = "decode" /\ snd'.pc = "idle") =>
              gbs_audio_get_progress(audio_state')
              >= gbs_audio_get_progress(audio_state)
      ]_vars


---------------------------------------------------------------------------
(* Blocks of code 0 from the centre.                                       *)
(*                                                                         *)
(* SpecCentre plays mode-3 files of 1 .. CentreBlocks blocks whose block   *)
(* headers hold predictor 0x8000 and step index 0 and whose data bytes are *)
(* all 0x00; the file of one block is 1024 bytes long.                     *)

CentreBlocks == 3
CentreFiles == { GbsFile(3, b, 0, "centre", "zeros") : b \in 1 .. CentreBlocks }

InitCentre ==
    /\ VideoIdle
    /\ gbs \in CentreFiles
    /\ audio_state = ZeroState
    /\ snd = BootSnd
    /\ pack = NoPack

NextCentre ==
    \/ GbsAudioInit
    \/ GbsAudioStart
    \/ DecodeSample
    \/ StartSecondBuffer
    \/ StartReturn
    \/ AudioTimer1Handler
    \/ TimerReturn

SpecCentre == InitCentre /\ [][NextCentre]_vars

\* one iteration of the sample loop
SampleStep == snd.pc = "decode" /\ snd'.pc = "decode" /\ snd'.i = snd.i + 1

\* C27 as stated: the 1024-byte file gives exactly 2032 samples before
\* finished is set, and every sample written is 0.
C27_AllZero ==
    [][ (gbs.size = 1024 /\ SampleStep) =>
           /\ snd'.l = 0
           /\ Counted(audio_state', snd') <= 2032
           /\ audio_state'.info.is_finished <=>
                 (Counted(audio_state', snd') = 2032
                  /\ Counted(audio_state, snd) = 2032)
      ]_vars

\* C27: a file of blocks with predictor 0x8000, step index 0 and data bytes
\* 0x00 gives exactly 2032 samples per block before finished is set (2032
\* for the 1024-byte file); code 0 at step index 0 adds 3 to the predictor,
\* so the k-th sample of a block (k = 1 .. 2032) is floor(3k / 256), 0 for
\* the first 85 samples and 23 for the last; the slots written once the
\* data is exhausted are 0.
C27_CentreRamp ==
    [][ SampleStep =>
           LET n == Counted(audio_state', snd')
               total == 2032 * ((gbs.size - GBS_HEADER_SIZE) \div 512)
           IN  /\ n <= total
               /\ audio_state'.info.is_finished <=>
                     (n = total /\ Counted(audio_state, snd) = total)
               /\ IF n = Counted(audio_state, snd) + 1
                  THEN snd'.l = (3 * (((n - 1) % 2032) + 1)) \div 256
                  ELSE n = Counted(audio_state, snd) /\ snd'.l = 0
      ]_vars

\* the last sample of the 1024-byte file has been written
C27_Witness ==
    /\ gbs.size = 1024
    /\ snd.pc = "decode"
    /\ Counted(audio_state, snd) = 2032
    /\ ~audio_state.info.is_finished
    /\ snd.l = 23


---------------------------------------------------------------------------
(* The packager (gbm_packager.c).                                          *)
(*                                                                         *)
(* A path is a sequence of characters.  pack is [pc, argv, fs, gbm_path,   *)
(* gbs_path, path, base, ext, i, auto, out, existed, ret]: the position of *)
(* main, the arguments after the program name, the set of paths present,   *)
(* the locals of main and make_unique_path, the path opened for writing    *)
(* and whether it was present then, and the exit status.                   *)

LOOP_END == 1000

\* c + 32 for 'A' .. 'Z', over the letters the arguments are made of
ToLower(c) ==
    CASE c = "G" -> "g" [] c = "B" -> "b" [] c = "M" -> "m" [] c = "S" -> "s"
      [] c = "A" -> "a" [] OTHER -> c

ends_with(str, suffix) ==
    IF Len(suffix) > Len(str) THEN FALSE
    ELSE \A i \in 1 .. Len(suffix) :
            ToLower(str[Len(str) - Len(suffix) + i]) = ToLower(suffix[i])

\* strrchr(path, c): the index of the last c, 0 for NULL
strrchr(path, c) ==
    LET at == { i \in 1 .. Len(path) : path[i] = c }
    IN  IF at = {} THEN 0 ELSE CHOOSE i \in at : \A j \in at : j <= i

\* "%d"
RECURSIVE Decimal(_)
Decimal(n) ==
    LET digit == <<"0", "1", "2", "3", "4", "5", "6", "7", "8", "9">>
    IN  IF n < 10 THEN <<digit[n + 1]>>
        ELSE Decimal(n \div 10) \o <<digit[(n % 10) + 1]>>

EXT_GBM == <<".", "g", "b", "m">>
EXT_GBS == <<".", "g", "b", "s">>
EXT_GBA == <<".", "g", "b", "a">>

\* "%s_%d%s"
Numbered(base, i, ext) == base \o <<"_">> \o Decimal(i) \o ext

\* main, argc == 3: gbm_path and gbs_path after the loop over argv[1..2]
\* (<<>> for NULL)
Classify(argv) ==
    LET step(r, a) == IF ends_with(a, EXT_GBM) THEN [r EXCEPT !.gbm = a]
                      ELSE IF ends_with(a, EXT_GBS) THEN [r EXCEPT !.gbs = a]
                      ELSE r
    IN  step(step([gbm |-> <<>>, gbs |-> <<>>], argv[1]), argv[2])

\* main: auto_output before make_unique_path
AutoOutput(gbm_path) ==
    LET dot == strrchr(gbm_path, ".")
    IN  (IF dot = 0 THEN gbm_path ELSE SubSeq(gbm_path, 1, dot - 1)) \o EXT_GBA

BootPack(argv, fs) ==
    [pc |-> "main", argv |-> argv, fs |-> fs, gbm_path |-> <<>>,
     gbs_path |-> <<>>, path |-> <<>>, base |-> <<>>, ext |-> <<>>, i |-> 0,
     auto |-> FALSE, out |-> <<>>, existed |-> FALSE, ret |-> -1]

PlayerIdle ==
    /\ UNCHANGED video
    /\ UNCHANGED audio

\* main up to the call of make_unique_path (auto mode), or up to
\* create_gbfs (explicit mode), or the usage error
PackMain ==
    /\ pack.pc = "main"
    /\ pack' =
         IF Len(pack.argv) = 2
         THEN LET c == Classify(pack.argv)
              IN  IF c.gbm = <<>> \/ c.gbs = <<>>
                  THEN [pack EXCEPT !.pc = "exit", !.ret = 1]
                  ELSE [pack EXCEPT !.pc = "unique", !.auto = TRUE,
                                    !.gbm_path = c.gbm, !.gbs_path = c.gbs,
                                    !.path = AutoOutput(c.gbm)]
         ELSE IF Len(pack.argv) = 3
         THEN [pack EXCEPT !.pc = "read", !.path = pack.argv[1],
                           !.gbm_path = pack.argv[2], !.gbs_path = pack.argv[3]]
         ELSE [pack EXCEPT !.pc = "exit", !.ret = 1]
    /\ PlayerIdle

\* make_unique_path: the first access() and the split at the last dot
UniqueFirst ==
    /\ pack.pc = "unique"
    /\ pack' =
         IF pack.path \notin pack.fs
         THEN [pack EXCEPT !.pc = "read"]
         ELSE LET dot == strrchr(pack.path, ".")
              IN  [pack EXCEPT
                     !.pc = "try", !.i = 1,
                     !.base = IF dot = 0 THEN pack.path
                              ELSE SubSeq(pack.path, 1, dot - 1),
                     !.ext = IF dot = 0 THEN <<>>
                             ELSE SubSeq(pack.path, dot, Len(pack.path))]
    /\ PlayerIdle

\* make_unique_path: one turn of for (i = 1; i < 1000; i++)
UniqueTry ==
    /\ pack.pc = "try"
    /\ pack' =
         IF pack.i < LOOP_END
         THEN LET p == Numbered(pack.base, pack.i, pack.ext)
              IN  IF p \notin pack.fs
                  THEN [pack EXCEPT !.path = p, !.pc = "read"]
                  ELSE [pack EXCEPT !.path = p, !.i = @ + 1]
         ELSE [pack EXCEPT !.pc = "read"]
    /\ PlayerIdle

\* create_gbfs: both inputs are opened for reading
CreateGbfs ==
    /\ pack.pc = "read"
    /\ pack' = IF pack.gbm_path \in pack.fs /\ pack.gbs_path \in pack.fs
               THEN [pack EXCEPT !.pc = "open"]
               ELSE [pack EXCEPT !.pc = "exit", !.ret = 1]
    /\ PlayerIdle

\* fopen(output_path, "wb"): it fails, or the file is created or truncated
\* and written
OpenOutput ==
    /\ pack.pc = "open"
    /\ \E opens \in BOOLEAN :
          pack' = IF opens
                  THEN [pack EXCEPT !.pc = "exit", !.ret = 0, !.out = pack.path,
                                    !.existed = pack.path \in pack.fs,
                                    !.fs = @ \cup {pack.path}]
                  ELSE [pack EXCEPT !.pc = "exit", !.ret = 1]
    /\ PlayerIdle

\* the paths BASE.gba (n = 0) and BASE_n.gba for n in taken
Present(base, taken) ==
    { IF n = 0 THEN base \o EXT_GBA ELSE Numbered(base, n, EXT_GBA) : n \in taken }

PackNames == 3

StemM == <<"m">>
StemA == <<"d", ".", "x", "/", "a">>

ArgLists ==
    { <<StemM \o EXT_GBM, StemM \o EXT_GBS>>,
      <<StemA \o <<".", "G", "B", "S">>, StemM \o <<".", "G", "b", "M">>>>,
      <<StemA \o EXT_GBM, StemM \o EXT_GBS>>,
      <<StemM \o EXT_GBM, StemA \o EXT_GBM>>,
      <<StemM \o EXT_GBM>>,
      <<StemM \o EXT_GBA, StemM \o EXT_GBM, StemM \o EXT_GBS>> }

TakenSets ==
    SUBSET (0 .. PackNames)
    \cup { 0 .. LOOP_END - 2, 0 .. LOOP_END - 1, 0 .. LOOP_END,
           (0 .. LOOP_END - 1) \ {PackNames} }

InitPack ==
    /\ VideoIdle
    /\ gbs = NoAudio
    /\ audio_state = NoAudio
    /\ snd = NoAudio
    /\ \E argv \in ArgLists, taken \in TakenSets, inputs \in BOOLEAN :
          pack = BootPack(argv,
                          Present(StemM, taken) \cup Present(StemA, taken)
                          \cup (IF inputs THEN { argv[k] : k \in 1 .. Len(argv) }
                                          \ {StemM \o EXT_GBA}
                                ELSE {}))

NextPack ==
    \/ PackMain
    \/ UniqueFirst
    \/ UniqueTry
    \/ CreateGbfs
    \/ OpenOutput

SpecPack == InitPack /\ [][NextPack]_vars

\* BASE.gba if that is free, else BASE_N.gba for the smallest N >= 1 that is
FirstFree(base, fs) ==
    IF base \o EXT_GBA \notin fs THEN base \o EXT_GBA
    ELSE Numbered(base,
                  CHOOSE n \in 1 .. LOOP_END + 1 :
                     /\ Numbered(base, n, EXT_GBA) \notin fs
                     /\ \A k \in 1 .. n - 1 : Numbered(base, k, EXT_GBA) \in fs,
                  EXT_GBA)

\* C28: in auto-name mode the path opened for writing does not exist
\* beforehand: it is BASE.gba if that file does not exist, otherwise
\* BASE_N.gba for the smallest N >= 1 for which no file exists, whatever
\* files are present.
C28_NoClobber ==
    [][ (pack.pc = "open" /\ pack.auto /\ pack'.ret = 0) =>
           /\ pack'.out \notin pack.fs
           /\ pack'.out = FirstFree(SubSeq(pack.gbm_path, 1, Len(pack.gbm_path) - 4),
                                    pack.fs)
      ]_vars


---------------------------------------------------------------------------
(* Claims about block_offset across a decode_block_WxH call (SpecOps).     *)

\* the advance of block_offset over a whole call, by block size
OffsetDelta(k) ==
    CASE k = "8x4" -> 1920      \* 0x780
      [] k = "8x2" -> 960       \* 0x3C0
      [] k = "8x1" -> 480       \* 0x1E0
      [] k \in {"4x8", "4x4", "4x2", "4x1"} -> 8
      [] k \in {"2x8", "2x4", "2x2", "2x1"} -> 4
      [] k \in {"1x8", "1x4", "1x2"} -> 2

\* the byte offset of the second half of a block of kind parent cut into
\* two blocks of kind child, from the top-left of the parent
SecondHalf(parent, child) ==
    IF PixW(child) = PixW(parent) THEN PixH(child) * ROW_BYTES
    ELSE PixW(child) * 2

\* C29: a decode_block_WxH call below 8x8 returns with block_offset at its
\* entry value plus 0x780 (8x4), 0x3C0 (8x2), 0x1E0 (8x1), 8 (4 wide),
\* 4 (2 wide) or 2 (1 wide), whichever branch it took (unchanged, copy,
\* fill, delta-add, or subdivision in either direction); the first child
\* of a subdivision starts where its parent does and the second at the
\* top-left of the second half of the parent.
C29_OffsetAdvance ==
    [][ /\ (pc = "block" /\ Len(stack') = Len(stack) - 1 /\ Top.kind # "8x8") =>
              ctx'.block_offset = Top.off + OffsetDelta(Top.kind)
        /\ (pc = "block" /\ Len(stack') = Len(stack) + 1) =>
              LET child == stack'[Len(stack')]
              IN  /\ child.off = ctx'.block_offset
                  /\ Top.at = "entry" => child.off = Top.off
                  /\ Top.at = "mid" =>
                        child.off = Top.off + SecondHalf(Top.kind, child.kind)
      ]_vars

\* a 4x8 block cut into an upper and a lower 4x4 block has returned (+0x778
\* before the lower block, -0x780 after it)
C29_Witness ==
    /\ stack = <<>>
    /\ op.kind = "4x4"
    /\ op.off = OpOrigin + 4 * ROW_BYTES
    /\ DOMAIN covered = KindRect("4x8", OpOrigin)
    /\ ctx.block_offset = OpOrigin + 8


---------------------------------------------------------------------------
(* Claims about decode_block_1x2 and decode_block_2x1 (SpecOps).           *)

\* the pixel indices of the first and the other pixel of a two-pixel block
FirstPixel(off) == off \div 2
OtherPixel(k, off) ==
    IF k = "2x1" THEN off \div 2 + 1 ELSE off \div 2 + FRAME_WIDTH

\* the flag reader of c is where that of r is
SameFlags(c, r) == c.state = r.state /\ c.flag_ptr = r.flag_ptr

\* C30: in decode_block_1x2 and decode_block_2x1, flag bits 10 perform a
\* delta-add that consumes one payload byte and one palette colour and
\* reads no further flag bit; flag bits 11 read one more bit: 0 consumes
\* one palette colour and writes it to both pixels, 1 consumes two and
\* writes the first to the first pixel (left for 2x1, top for 1x2) and the
\* second to the other pixel; no other pixel is written.
C30_TwoPixelBlocks ==
    [][ (pc = "block" /\ Top.at = "entry" /\ TwoPixel(Top.kind)
         /\ Sel.ret \in {2, 3}) =>
           LET p1   == FirstPixel(ctx.block_offset)
               p2   == OtherPixel(Top.kind, ctx.block_offset)
               nb   == next_bit(data, wild, Sel.ctx)
               c0   == read_u16_unaligned(data, wild, ctx.palette_ptr)
               c1   == read_u16_unaligned(data, wild, ctx.palette_ptr + 2)
               code == DataAt(data, wild, ctx.payload_ptr)
               disp == CodebookOffset(code) \div 2
               s1   == RefAt(Env, dst, p1 + disp)
               s2   == RefAt(Env, dst, p2 + disp)
           IN  /\ DOMAIN dst' = DOMAIN dst \cup {p1, p2}
               /\ \A p \in DOMAIN dst \ {p1, p2} : dst'[p] = dst[p]
               /\ Sel.ret = 2 =>
                     /\ op'.name = "delta"
                     /\ SameFlags(ctx', Sel.ctx)
                     /\ ctx'.payload_ptr = ctx.payload_ptr + 1
                     /\ ctx'.palette_ptr = ctx.palette_ptr + 2
                     /\ (ctx.ref = "other" /\ Top.kind = "1x2") =>
                           /\ dst'[p1] = delta_u16_pixel(s1, to_signed16(c0))
                           /\ dst'[p2] = delta_u16_pixel(s2, to_signed16(c0))
                     /\ (ctx.ref = "other" /\ Top.kind = "2x1") =>
                           /\ dst'[p1] = delta_u32_word(s1, s2, to_signed16(c0)).lo
                           /\ dst'[p2] = delta_u32_word(s1, s2, to_signed16(c0)).hi
               /\ Sel.ret = 3 =>
                     /\ SameFlags(ctx', nb.ctx)
                     /\ ~SameFlags(ctx', Sel.ctx)
                     /\ ctx'.payload_ptr = ctx.payload_ptr
                     /\ nb.ret = 0 =>
                           /\ ctx'.palette_ptr = ctx.palette_ptr + 2
                           /\ dst'[p1] = c0
                           /\ dst'[p2] = c0
                     /\ nb.ret = 1 =>
                           /\ ctx'.palette_ptr = ctx.palette_ptr + 4
                           /\ dst'[p1] = c0
                           /\ dst'[p2] = c1
      ]_vars

\* a 1x2 block has been filled with two different colours, the first on
\* top
C30_Witness ==
    /\ stack = <<>>
    /\ op.name = "fill2"
    /\ op.kind = "1x2"
    /\ FirstPixel(OpOrigin) \in DOMAIN dst
    /\ dst[FirstPixel(OpOrigin)] = op.color
    /\ dst[OtherPixel("1x2", OpOrigin)] = 992
    /\ op.color # 992


---------------------------------------------------------------------------
(* SpecBlock: one call of decode_block_8x8 on the macroblock in row 1,     *)
(* column 1, run to completion.  The flag stream is one of the trees of    *)
(* Spec, or StreamBits bits of a repeated pattern that no encoder wrote.   *)

StreamBits == 192

\* 100 100 ... subdivides wherever it can; the others fall out of step
\* with the tree they describe
StreamPatterns ==
    { <<1, 0, 0>>, <<1, 0, 1>>, <<1, 0>>, <<1, 1, 0>>, <<1, 0, 0, 1>>,
      <<1, 0, 1, 1, 0>>, <<1>> }

BlockStreams ==
    { TreeBits("8x8", 0, 0, Tree(j)) : j \in 0 .. NumTrees - 1 }
    \cup { [n \in 1 .. StreamBits |-> p[((n - 1) % Len(p)) + 1]] : p \in StreamPatterns }

InitBlock ==
    /\ refArg \in {"dst", "other"}
    /\ \E bits \in BlockStreams :
          \E flags \in {PackFlags(bits)} :
             /\ data = flags \o Palette("trees") \o Payload("trees")
             /\ ctx = [state |-> SENTINEL, flag_ptr |-> 0, flag_end |-> Len(flags),
                       palette_ptr |-> Len(flags),
                       palette_end |-> Len(flags) + Len(Palette("trees")),
                       payload_ptr |-> Len(flags) + Len(Palette("trees")),
                       payload_end |-> Len(flags) + Len(Palette("trees"))
                                         + Len(Payload("trees")),
                       ref |-> refArg, row_offset |-> 8 * ROW_BYTES,
                       block_offset |-> OpOrigin]
    /\ hdr_version = GBM_VERSION_GEN3
    /\ wild = 0
    /\ version = GBM_VERSION_GEN3
    /\ offset = 0
    /\ seed = 0
    /\ dst = NoPixels
    /\ frame = NoFrame
    /\ stack = <<[kind |-> "8x8", at |-> "entry", dir |-> 0, off |-> OpOrigin]>>
    /\ x_block = 1
    /\ y_block = 1
    /\ pc = "block"
    /\ ret = 0
    /\ op = NoOp
    /\ mb = [n |-> 1, off |-> OpOrigin, calls |-> 1]
    /\ covered = NoPixels
    /\ gbs = NoAudio
    /\ audio_state = NoAudio
    /\ snd = NoAudio
    /\ pack = NoPack

SpecBlock == InitBlock /\ [][NextOps]_vars

Pixels(k) == PixW(k) * PixH(k)

\* the chain from decode_block_8x8 down to a two-pixel block
NestingDepth == 6

\* 1 + 2 + 4 + 8 + 16 + 32 calls: the full tree of halvings of 64 pixels
BlockDecodes == 63

\* the active calls halve the pixel count from one to the next, the chain
\* is at most NestingDepth deep, and the macroblock has made at most
\* BlockDecodes calls
Halving ==
    pc = "block" =>
        /\ Len(stack) \in 1 .. NestingDepth
        /\ Pixels(stack[1].kind) = 64
        /\ \A i \in 1 .. Len(stack) - 1 :
              2 * Pixels(stack[i + 1].kind) = Pixels(stack[i].kind)
        /\ mb.calls \in Len(stack) .. BlockDecodes

\* the steps a call on a block of p pixels takes at most, its nested calls
\* included: one for a two-pixel block, else the subdivision, the second
\* call and the return around two calls on p / 2 pixels
MaxSteps(p) == 2 * p - 3

\* the steps the active call stack[i] still has to take itself or to hand
\* to calls it has not made yet
Remaining(i) ==
    CASE stack[i].at = "entry" -> MaxSteps(Pixels(stack[i].kind))
      [] stack[i].at = "mid"   -> 2 + MaxSteps(Pixels(stack[i].kind) \div 2)
      [] stack[i].at = "post"  -> 1

RECURSIVE RankFrom(_)
RankFrom(i) == IF i > Len(stack) THEN 0 ELSE Remaining(i) + RankFrom(i + 1)

Rank == IF pc = "block" THEN RankFrom(1) ELSE 0

\* the innermost call is at a point one of the decode actions continues
\* from: after a nested call, or at its switch with a selector and a
\* sub-selector bit that the switch has a case for
Dispatched ==
    \/ Top.at \in {"mid", "post"}
    \/ /\ Top.at = "entry"
       /\ Sel.ret \in 0 .. 3
       /\ (Sel.ret = 3 /\ ~TwoPixel(Top.kind))
             => next_bit(data, wild, Sel.ctx).ret \in {0, 1}

\* C31: decoding one macroblock terminates whatever the flag stream says:
\* every nested call handles half the pixels of its caller, the chain of
\* calls from decode_block_8x8 is at most 6 deep, the macroblock makes at
\* most 63 block decodes, and until decode_block_8x8 has returned the
\* innermost call can continue and every step lowers a measure that starts
\* at MaxSteps(64) and is never negative.
C31_Terminates ==
    [][ /\ Halving /\ Halving'
        /\ Dispatched
        /\ Rank \in 1 .. MaxSteps(64)
        /\ Rank' \in 0 .. Rank - 1
        /\ Rank' = 0 <=> pc' = "loop" ]_vars

\* the 63rd block decode of a macroblock, a two-pixel block 6 calls deep
C31_Witness ==
    /\ pc = "block"
    /\ Len(stack) = NestingDepth
    /\ TwoPixel(Top.kind)
    /\ Top.at = "entry"
    /\ mb.calls = BlockDecodes


---------------------------------------------------------------------------
(* gbs_audio_restart against a fresh gbs_audio_init + gbs_audio_start      *)
(* (SpecIrq).  Both reach the pre-decode of gbs_audio_start; what the    *)
(* pre-decode does is a function of the fields compared here.              *)

\* the decoder position of a state: block, byte, channel state, count
DecoderFields(st) ==
    [block_index |-> st.block_index, byte_in_block |-> st.byte_in_block,
     current_block_ptr |-> st.current_block_ptr,
     left |-> st.left, right |-> st.right,
     samples_decoded |-> st.info.samples_decoded]

\* the A/V sync fields of a state
SyncFields(st) ==
    [current_audio_minute |-> st.current_audio_minute,
     next_minute_sample |-> st.next_minute_sample,
     sync_minute |-> st.sync_minute]

\* the state in which gbs_audio_start begins its pre-decode when it is
\* called right after gbs_audio_init
FreshStart == gbs_audio_start(gbs_audio_init(gbs).st, snd, "start", 0).st

\* this step is the reset of a gbs_audio_restart() call on an opened file
\* with blocks
RestartStep ==
    /\ Opened
    /\ audio_state.info.total_blocks > 0
    /\ snd.pc = "idle"
    /\ snd.main = "reset"
    /\ snd.api = "restart"
    /\ snd'.main = "idle"

\* the part of the comparison that holds: the decoder position after a
\* restart is that of a fresh start
RestartResetsDecoder ==
    [][RestartStep => DecoderFields(audio_state') = DecoderFields(FreshStart)]_vars

\* C32: gbs_audio_restart(), called at any point of playback (after
\* minute boundaries or a seek too), leaves the decoder position and the
\* sync fields as gbs_audio_init followed by gbs_audio_start leaves them:
\* block 0 with its header state, samples_decoded 0, current_audio_minute
\* 0, next_minute_sample = samples_per_minute, sync_minute -1.
C32_RestartIsFreshStart ==
    [][RestartStep =>
          /\ DecoderFields(audio_state') = DecoderFields(FreshStart)
          /\ SyncFields(audio_state') = SyncFields(FreshStart)
          /\ SyncFields(FreshStart) =
                [current_audio_minute |-> 0,
                 next_minute_sample |-> audio_state.samples_per_minute,
                 sync_minute |-> -1]]_vars


---------------------------------------------------------------------------
(* Reads of the decoder stay inside the file (SpecAudio).  The sample loop *)
(* takes bytes from the current block only while is_finished is clear.     *)

\* the sample loop is about to take a sample from the stream
ReadsStream ==
    /\ snd.pc = "decode"
    /\ snd.i < AUDIO_BUFFER_SAMPLES
    /\ ~audio_state.info.is_finished

\* the current block is a block of the file
BlockInsideFile ==
    /\ audio_state.block_index < audio_state.info.total_blocks
    /\ audio_state.current_block_ptr
       = GBS_HEADER_SIZE + audio_state.block_index * audio_state.info.block_size
    /\ audio_state.current_block_ptr + audio_state.info.block_size <= gbs.size

\* the part that holds: on a file with at least one block every read of
\* the sample loop is from a block of the file
ReadsInsideFile ==
    (Opened /\ audio_state.info.total_blocks > 0 /\ ReadsStream) => BlockInsideFile

\* C33: under any sequence of init, start, interrupts, restart and
\* seek_minute no header or data byte is read from a block index >=
\* total_blocks, and on a file with total_blocks = 0 restart and
\* seek_minute read nothing past the 512-byte header and leave the decoder
\* finished.
C33_NoReadPastEnd ==
    Opened =>
        /\ ReadsStream => BlockInsideFile
        /\ audio_state.info.total_blocks = 0 => audio_state.info.is_finished


---------------------------------------------------------------------------
(* Which buffers reach the DMA (SpecAudio).  The last decode_buffer call   *)
(* wrote snd.decoded real samples into the buffer DMA is not reading:      *)
(* buffer 1 at the end of gbs_audio_start, play_buffer in the handler.     *)

\* this step is the entry of audio_timer1_handler, on a file that has
\* blocks (the samples of an empty file are not real ones)
HandlerEntry ==
    /\ audio_state.info.total_blocks > 0
    /\ snd.pc = "idle"
    /\ snd'.call = "irq"
    /\ snd'.ticks = snd.ticks + 1

\* the part that holds: an interrupt on an unfinished stream selects the
\* buffer the previous decode_buffer call filled
FilledBufferSelected ==
    [][(HandlerEntry /\ ~audio_state.info.is_finished) =>
          /\ snd'.sad = 1 - snd.sad
          /\ snd'.dma1]_vars

\* C34: every buffer decode_buffer fills with at least one real sample is
\* selected as the DMA playback buffer before the handler turns DMA off
\* and clears is_playing; the buffer whose refill exhausted the stream is
\* played before playback stops.
C34_FilledBufferIsPlayed ==
    [][HandlerEntry =>
          IF audio_state.info.is_finished
          THEN snd.decoded = 0
          ELSE snd'.sad = 1 - snd.sad /\ snd'.dma1]_vars


---------------------------------------------------------------------------
(* The unpack-ahead state between decode_buffer calls (SpecAudio).         *)

\* no decode_buffer call is under way, or one is at its entry or return
BetweenCalls ==
    \/ snd.pc = "idle"
    \/ snd.pc = "decode" /\ snd.i \in {0, AUDIO_BUFFER_SAMPLES}

\* the first slot of the first buffer after gbs_audio_restart() has just
\* been written
FirstAfterRestart ==
    /\ snd.pc = "decode"
    /\ snd.call = "restart"
    /\ snd.phase = 0
    /\ snd.i = 1
    /\ audio_state.info.total_blocks > 0

\* C35: at the return of every decode_buffer call the unpack-ahead state
\* is empty in every mode (samples_buffered = 0, have_high_nibble false),
\* so gbs_audio_restart, which does not clear it, never emits a sample
\* unpacked before the restart: its first sample is unpacked from byte 0 of
\* block 0, starting from the header of block 0.
C35_NoCarryAtReturn ==
    Opened =>
        /\ BetweenCalls => NoCarry(audio_state)
        /\ FirstAfterRestart =>
              /\ snd.used.block = 0
              /\ snd.used.byte = 0
              /\ snd.used.left
                 = ParseCurrentBlock(gbs,
                      [audio_state EXCEPT !.current_block_ptr = GBS_HEADER_SIZE]).left

\* the second pre-decode of a restart returns, in a mode that unpacks ahead
C35_Witness ==
    /\ Opened
    /\ snd.pc = "decode"
    /\ snd.call = "restart"
    /\ snd.phase = 1
    /\ snd.i = AUDIO_BUFFER_SAMPLES
    /\ snd.decoded > 0
    /\ audio_state.info.mode = 1
    /\ NoCarry(audio_state)


---------------------------------------------------------------------------
(* gbs_audio_pause and gbs_audio_resume (SpecIrq).  The guard of           *)
(* gbs_audio_pause and its two timer writes are separate statements, so    *)
(* the interrupt can fall between them.                                    *)

\* what a pause is to keep: position, channel state, count, buffer, sync
Paused(st) ==
    [decoder |-> DecoderFields(st), sync |-> SyncFields(st),
     active_buffer |-> st.active_buffer, is_finished |-> st.info.is_finished]

\* the part that holds: while is_paused stays set nothing is decoded, and
\* resume acts only on a playing, paused driver
PauseFreezesDecoder ==
    [][ /\ (audio_state.is_paused /\ audio_state'.is_paused) =>
              /\ Paused(audio_state') = Paused(audio_state)
              /\ snd'.pc = "idle"
        /\ (audio_state.is_paused /\ ~audio_state'.is_paused /\ snd'.call = "resume") =>
              /\ audio_state.info.is_playing
              /\ Paused(audio_state') = Paused(audio_state)
              /\ snd'.timer /\ snd'.sad = audio_state.active_buffer
      ]_vars

\* C36: gbs_audio_pause takes effect only when is_playing and not paused,
\* gbs_audio_resume only when is_playing and paused; between an effective
\* pause and the following resume no sample is decoded, so the block
\* position, channel state, samples_decoded, active_buffer and the sync
\* fields are the same at the resume as at the pause; is_paused implies
\* is_playing in every reachable state.
C36_PauseResume ==
    [][ /\ (~audio_state.is_paused /\ audio_state'.is_paused) =>
              audio_state.info.is_playing
        /\ (audio_state.is_paused /\ audio_state'.is_paused) =>
              /\ Paused(audio_state') = Paused(audio_state)
              /\ snd'.pc = "idle"
        /\ (audio_state.is_paused /\ ~audio_state'.is_paused /\ snd'.call = "resume") =>
              /\ audio_state.info.is_playing
              /\ Paused(audio_state') = Paused(audio_state)
        /\ audio_state'.is_paused => audio_state'.info.is_playing
      ]_vars


---------------------------------------------------------------------------
(* SpecEdge: one decode_block_WxH call of any block size on a macroblock   *)
(* of the frame's border or interior, with the streams of SpecOps.         *)

\* macroblock columns and rows: the edges, their neighbours, the middle
EdgeColumns == {0, 15, 29}
EdgeRows == {0, 1, 2, 10, 18, 19}

InitEdge ==
    /\ \E fb \in OpFlagBytes, code \in OpCodes :
          data = <<0, 0, 0, fb>> \o <<1, 0, 224, 3>> \o <<code, code>>
    /\ hdr_version = GBM_VERSION_GEN3
    /\ wild = 0
    /\ version = GBM_VERSION_GEN3
    /\ offset = 0
    /\ refArg = "other"
    /\ seed = 0
    /\ dst = NoPixels
    /\ x_block \in EdgeColumns
    /\ y_block \in EdgeRows
    /\ ctx = [state |-> SENTINEL, flag_ptr |-> 0, flag_end |-> 4,
              palette_ptr |-> 4, palette_end |-> 8,
              payload_ptr |-> 8, payload_end |-> 10,
              ref |-> refArg, row_offset |-> y_block * 8 * ROW_BYTES,
              block_offset |-> y_block * 8 * ROW_BYTES + x_block * 8 * 2]
    /\ frame = NoFrame
    /\ \E k \in Kinds :
          stack = <<[kind |-> k, at |-> "entry", dir |-> 0,
                     off |-> ctx.block_offset]>>
    /\ pc = "block"
    /\ ret = 0
    /\ op = NoOp
    /\ mb = [n |-> y_block * (FRAME_WIDTH \div 8) + x_block + 1,
             off |-> ctx.block_offset, calls |-> 1]
    /\ covered = NoPixels
    /\ gbs = NoAudio
    /\ audio_state = NoAudio
    /\ snd = NoAudio
    /\ pack = NoPack

SpecEdge == InitEdge /\ [][NextOps]_vars

\* the pixels the last copy or delta-add read from the reference
SourceRect == KindRect(op.kind, op.ref_off)

InsideFrame(rect) == \A p \in rect : p >= 0 /\ p < FRAME_PIXELS

\* the macroblock row of the block the last operation wrote
OpRow == (op.off \div ROW_BYTES) \div 8

\* the part that holds: in macroblock rows 2 to 18 every source rectangle
\* is inside the reference frame
InnerSourcesInside ==
    (op.name \in {"copy", "delta"} /\ OpRow \in 2 .. 18) => InsideFrame(SourceRect)

\* C37: for every macroblock position, every sub-block and every payload
\* byte c, the source rectangle read at block_offset + CODEBOOK_OFFSETS[c]
\* lies inside the 240x160 reference frame (byte offsets 0 .. 76799), in
\* the top and bottom macroblock rows and at the left and right edges too.
C37_SourceInsideFrame ==
    op.name \in {"copy", "delta"} => InsideFrame(SourceRect)


---------------------------------------------------------------------------
(* SpecPlayer: the single-mode player of main.c on the embedded image      *)
(* audio_gbs.  Here gbs is that image, audio_state holds main.c's static   *)
(* audio_state and block_state structs (pointers are file offsets, -1 for  *)
(* the null pointer of the zero-initialised struct), and snd is the        *)
(* position of main, the sound hardware and what main last displayed.      *)
(* The Timer1 handler is entered at statement boundaries of the main loop. *)

PLAYER_BUFFER_SAMPLES == 368
GBS_BLOCK_SIZE == 512
GBS_BLOCK_HEADER_SIZE == 4
GBS_SAMPLES_PER_BLOCK == (GBS_BLOCK_SIZE - GBS_BLOCK_HEADER_SIZE) * 4

\* static struct audio_state, static struct block_state
ZeroPlayer ==
    [data |-> -1, nibble_offset |-> 0, total_nibbles |-> 0,
     predictor |-> 0, step_index |-> 0, samples_decoded |-> 0,
     total_samples |-> 0, active_buffer |-> 0, finished |-> FALSE,
     block_index |-> 0, total_blocks |-> 0, sample_in_block |-> 0,
     samples_per_block |-> 0]

\* parse_block_header followed by the data pointer and nibble_offset
EnterBlock(g, st, block) ==
    Only({ [st EXCEPT !.predictor = h.predictor, !.step_index = h.step_index,
                      !.data = block + GBS_BLOCK_HEADER_SIZE,
                      !.nibble_offset = 0] :
           h \in {parse_block_header_mono(g, 3, block)} })

init_block_decoder(g, st) ==
    IF SubSeq(g.head, 1, 4) # MAGIC \/ SubSeq(g.head, 9, 12) # MARKER
    THEN [st EXCEPT !.finished = TRUE]
    ELSE IF GbsMode(g) # W32(0, 3) THEN [st EXCEPT !.finished = TRUE]
    ELSE LET total_blocks == (g.size - GBS_HEADER_SIZE) \div GBS_BLOCK_SIZE
             s1 == [st EXCEPT !.total_blocks = total_blocks,
                              !.samples_per_block = GBS_SAMPLES_PER_BLOCK,
                              !.block_index = 0,
                              !.sample_in_block = 0,
                              !.total_samples = total_blocks * GBS_SAMPLES_PER_BLOCK,
                              !.samples_decoded = 0,
                              !.finished = FALSE]
         IN  IF total_blocks > 0
             THEN [EnterBlock(g, s1, GBS_HEADER_SIZE) EXCEPT
                      !.total_nibbles = (GBS_BLOCK_SIZE - GBS_BLOCK_HEADER_SIZE) * 4]
             ELSE s1

\* [st, ret]
get_next_2bit(g, st) ==
    IF st.nibble_offset >= st.total_nibbles THEN [st |-> st, ret |-> 0]
    ELSE [st |-> [st EXCEPT !.nibble_offset = @ + 1],
          ret |-> (GbsByte(g, st.data + st.nibble_offset \div 4)
                     \div (4 ^ (st.nibble_offset % 4))) % 4]

\* [st, ret]
decode_2bit_sample(g, st) ==
    Only({ [st |-> [n.st EXCEPT !.predictor = k.ch.predictor,
                                !.step_index = k.ch.step_index],
            ret |-> Sample8(k.ret)] :
           k \in { decode_adpcm_2bit(n.ret, [predictor |-> n.st.predictor,
                                             step_index |-> n.st.step_index]) :
                   n \in {get_next_2bit(g, st)} },
           n \in {get_next_2bit(g, st)} })

advance_block_if_needed(g, st) ==
    IF st.sample_in_block >= st.samples_per_block
    THEN LET s1 == [st EXCEPT !.block_index = @ + 1, !.sample_in_block = 0]
         IN  IF s1.block_index >= s1.total_blocks
             THEN [s1 EXCEPT !.finished = TRUE]
             ELSE EnterBlock(g, s1, GBS_HEADER_SIZE + s1.block_index * GBS_BLOCK_SIZE)
    ELSE st

\* one iteration of the loop of decode_samples_with_blocks: [st, ret]
decode_samples_with_blocks(g, st) ==
    IF st.finished THEN [st |-> st, ret |-> 0]
    ELSE Only({ IF s1.finished THEN [st |-> s1, ret |-> 0]
                ELSE Only({ [st |-> [d.st EXCEPT !.sample_in_block = @ + 1,
                                                 !.samples_decoded = @ + 1],
                             ret |-> d.ret] :
                            d \in {decode_2bit_sample(g, s1)} }) :
                s1 \in {advance_block_if_needed(g, st)} })

BootPlayer ==
    [pc |-> "boot", call |-> "none", phase |-> 0, i |-> 0, out |-> 0,
     back |-> "main", timer |-> FALSE, irq |-> FALSE, dma1 |-> FALSE, sad |-> 0,
     ticks |-> 0, restarts |-> 0, shown |-> "none", progress |-> 0,
     div0 |-> FALSE]

PlayerTicks == 6
PlayerRestarts == 1

\* what a division by zero may leave in progress: 0, or all ones (-1)
DivZeroResults == {0, -1}

\* entry of decode_samples_with_blocks(…, AUDIO_BUFFER_SAMPLES)
PreDecode(hw, call) ==
    [hw EXCEPT !.pc = "decode", !.call = call, !.phase = 0, !.i = 0]

\* audio_init up to its first decode_samples_with_blocks call
AudioInit ==
    /\ snd.pc = "boot"
    /\ \E s1 \in {init_block_decoder(gbs, audio_state)} :
          /\ audio_state' = s1
          /\ snd' = IF s1.finished THEN [snd EXCEPT !.pc = "main", !.call = "init"]
                    ELSE PreDecode(snd, "init")
    /\ UNCHANGED gbs
    /\ UNCHANGED <<video, pack>>

PlayerSample ==
    /\ snd.pc = "decode"
    /\ snd.i < PLAYER_BUFFER_SAMPLES
    /\ \E r \in {decode_samples_with_blocks(gbs, audio_state)} :
          /\ audio_state' = r.st
          /\ snd' = [snd EXCEPT !.i = @ + 1, !.out = r.ret]
    /\ UNCHANGED gbs
    /\ UNCHANGED <<video, pack>>

\* audio_init / audio_restart between the two pre-decode calls
PlayerSecondBuffer ==
    /\ snd.pc = "decode"
    /\ snd.i = PLAYER_BUFFER_SAMPLES
    /\ snd.call # "irq"
    /\ snd.phase = 0
    /\ snd' = [snd EXCEPT !.phase = 1, !.i = 0]
    /\ UNCHANGED <<gbs, audio_state>>
    /\ UNCHANGED <<video, pack>>

\* audio_init / audio_restart after the second pre-decode call
PlayerStart ==
    /\ snd.pc = "decode"
    /\ snd.i = PLAYER_BUFFER_SAMPLES
    /\ snd.call # "irq"
    /\ snd.phase = 1
    /\ audio_state' = [audio_state EXCEPT !.active_buffer = 0]
    /\ snd' = [snd EXCEPT !.pc = IF snd.call = "restart" THEN "progress" ELSE "main",
                          !.timer = TRUE, !.irq = TRUE, !.dma1 = TRUE, !.sad = 0]
    /\ UNCHANGED gbs
    /\ UNCHANGED <<video, pack>>

\* audio_timer1_handler of main.c up to its decode call
PlayerTimer1Handler ==
    /\ snd.pc \in {"main", "progress"}
    /\ snd.timer /\ snd.irq
    /\ snd.ticks < PlayerTicks
    /\ IF audio_state.finished
       THEN /\ snd' = [snd EXCEPT !.dma1 = FALSE, !.ticks = @ + 1, !.call = "irq"]
            /\ UNCHANGED audio_state
       ELSE /\ audio_state' = [audio_state EXCEPT !.active_buffer = 1 - @]
            /\ snd' = [snd EXCEPT !.pc = "decode", !.call = "irq",
                                  !.phase = audio_state.active_buffer, !.i = 0,
                                  !.back = snd.pc, !.dma1 = TRUE,
                                  !.sad = 1 - audio_state.active_buffer,
                                  !.ticks = @ + 1]
    /\ UNCHANGED gbs
    /\ UNCHANGED <<video, pack>>

PlayerTimerReturn ==
    /\ snd.pc = "decode"
    /\ snd.i = PLAYER_BUFFER_SAMPLES
    /\ snd.call = "irq"
    /\ snd' = [snd EXCEPT !.pc = snd.back]
    /\ UNCHANGED <<gbs, audio_state>>
    /\ UNCHANGED <<video, pack>>

\* the main loop up to the progress display: with START down,
\* audio_restart up to its first pre-decode call
MainKeys ==
    /\ snd.pc = "main"
    /\ \E start \in BOOLEAN :
          IF start /\ snd.restarts < PlayerRestarts
          THEN \E s1 \in {init_block_decoder(gbs,
                             [audio_state EXCEPT !.block_index = 0,
                                                 !.sample_in_block = 0])} :
                  /\ audio_state' = s1
                  /\ \E off \in {[snd EXCEPT !.dma1 = FALSE, !.timer = FALSE,
                                             !.irq = FALSE, !.restarts = @ + 1]} :
                        snd' = IF s1.finished
                               THEN [off EXCEPT !.pc = "progress", !.call = "restart"]
                               ELSE PreDecode(off, "restart")
          ELSE /\ snd' = [snd EXCEPT !.pc = "progress"]
               /\ UNCHANGED audio_state
    /\ UNCHANGED gbs
    /\ UNCHANGED <<video, pack>>

\* the progress display of the main loop
MainProgress ==
    /\ snd.pc = "progress"
    /\ IF audio_state.finished
       THEN snd' = [snd EXCEPT !.pc = "main", !.shown = "Finished!"]
       ELSE IF audio_state.total_samples = 0
       THEN \E q \in DivZeroResults :
               snd' = [snd EXCEPT !.pc = "main", !.shown = "Progress",
                                  !.progress = q, !.div0 = TRUE]
       ELSE snd' = [snd EXCEPT !.pc = "main", !.shown = "Progress",
                               !.progress = Div32(Times100(audio_state.samples_decoded),
                                                  audio_state.total_samples)]
    /\ UNCHANGED <<gbs, audio_state>>
    /\ UNCHANGED <<video, pack>>

\* images: no block, a tail shorter than a block, one block, blocks and a
\* tail, another mode, a wrong magic
PlayerFiles ==
    { GbsFile(3, 0, 0, "top", "sevens"), GbsFile(3, 0, TailBytes, "top", "sevens"),
      GbsFile(3, 1, 0, "mid", "mixed"),
      GbsFile(3, ShortBlocks, TailBytes, "top", "sevens"),
      GbsFile(2, 1, 0, "mid", "mixed"),
      [GbsFile(3, 1, 0, "mid", "mixed") EXCEPT
          !.head = GbsHead(<<71, 66, 65, 77>>, MARKER, <<3, 0, 0, 0>>)] }

InitPlayer ==
    /\ VideoIdle
    /\ gbs \in PlayerFiles
    /\ audio_state = ZeroPlayer
    /\ snd = BootPlayer
    /\ pack = NoPack

NextPlayer ==
    \/ AudioInit
    \/ PlayerSample
    \/ PlayerSecondBuffer
    \/ PlayerStart
    \/ PlayerTimer1Handler
    \/ PlayerTimerReturn
    \/ MainKeys
    \/ MainProgress

SpecPlayer == InitPlayer /\ [][NextPlayer]_vars

\* audio_gbs has the ids 'GBAL' and 'MUSI', mode 3 and no whole block
EmptyImage ==
    /\ SubSeq(gbs.head, 1, 4) = MAGIC
    /\ SubSeq(gbs.head, 9, 12) = MARKER
    /\ GbsMode(gbs) = W32(0, 3)
    /\ (gbs.size - GBS_HEADER_SIZE) \div GBS_BLOCK_SIZE = 0

\* the part that holds: an image with a wrong id or another mode is
\* finished from init_block_decoder on with nothing decoded, and on an
\* image with blocks the progress is never computed with total_samples = 0
OtherImages ==
    /\ (snd.pc # "boot" /\ audio_state.total_blocks = 0 /\ ~EmptyImage) =>
          audio_state.finished /\ audio_state.samples_decoded = 0
    /\ ~EmptyImage => ~snd.div0

\* C38: on an image with valid ids and mode 3 but no complete 512-byte
\* block the player is finished right after init_block_decoder, no sample
\* is decoded, and the progress computation of the main loop is never
\* evaluated with total_samples = 0.
C38_EmptyImageFinished ==
    (EmptyImage /\ snd.pc # "boot") =>
        /\ audio_state.finished
        /\ audio_state.samples_decoded = 0
        /\ ~snd.div0

=============================================================================
